---- MODULE Spec2Model ----
(***************************************************************************)
(* Governance subsystem of src/governance/governance.h: the state store    *)
(* (proposals, votes, sbvotes), the block processor (processBlock,         *)
(* BlockDisconnected), the chain loader (loadGovernanceData) and the        *)
(* superblock tally and payout selection.                                  *)
(*                                                                         *)
(* Hashes are modelled by injective encodings of the hashed fields: a      *)
(* proposal digest is the tuple of its serialised fields, a vote-id the    *)
(* pair (proposal, utxo), a sig-hash a scrambled integer of (proposal,     *)
(* vote, utxo, vinhash) so that its order is unrelated to the vote kind.   *)
(***************************************************************************)
EXTENDS Integers, Sequences, FiniteSets, TLC

VARIABLES
    chain,      \* live mode: the connected blocks, chain[h] is the block at height h
    store,      \* [proposals, votes, sbvotes]: the three maps guarded by mu
    last,       \* history of the last operation (what it was, the store before it)
    ld,         \* loadGovernanceData: its locals and the position of each worker
    fx          \* a call of a query (getTally, getSuperblockResults, ...): arguments, result

\* ------------------------------------------------------------------------
\* Consensus parameters (Consensus::Params as read by governance.h)
\* ------------------------------------------------------------------------
superblockPeriod == 5
governanceBlock == 1
proposalCutoff == 2
votingCutoff == 1
voteBalance == 2
voteMinUtxoAmount == 1
proposalMinAmount == 1
proposalMaxAmount == 6
GetBlockSubsidy(h) == 8

\* enum Type / enum VoteType / NETWORK_VERSION
NETWORK_VERSION == 1
PROPOSAL == 1
VOTE == 2
NO == 0
YES == 1
ABSTAIN == 2

\* ------------------------------------------------------------------------
\* Bounds of the model
\* ------------------------------------------------------------------------
MaxHeight == 6      \* live mode: the chain grows to this height at most
MaxLoadHeight == 4  \* load: the height of the chain that is loaded, at most
MaxCores == 3       \* load: the number of workers (nthreads), at most
MaxTallyVotes == 3  \* getTally: the length of the vector of votes, at most
MaxParseHeight == 2 \* blocks with truncated payloads: the height of the chain, at most
MaxCalls == 2       \* spendVote / unspendVote: calls made in a row, at most
MaxVouts == 4       \* isValidSuperblock: the outputs of the second transaction, at most

\* ------------------------------------------------------------------------
\* Finite maps (std::unordered_map): functions with an explicit key set
\* ------------------------------------------------------------------------
EmptyMap == <<>>
Put(m, k, v) == [x \in (DOMAIN m) \cup {k} |-> IF x = k THEN v ELSE m[x]]
Del(m, k) == [x \in (DOMAIN m) \ {k} |-> m[x]]
Range(m) == {m[x] : x \in DOMAIN m}
Min(a, b) == IF a <= b THEN a ELSE b

\* ------------------------------------------------------------------------
\* Proposal and Vote
\* ------------------------------------------------------------------------
NullHash == <<>>

\* Proposal::getHash: digest of version, type, name, superblock, amount, address
\* (url and description are folded into name); blockNumber is not hashed.
ProposalHash(p) == <<p.version, p.type, p.name, p.superblock, p.amount, p.address>>

\* Proposal(): the null proposal returned by getProposal for an unknown hash
NullProposal ==
    [version |-> NETWORK_VERSION, type |-> PROPOSAL, name |-> 0, superblock |-> 0,
     amount |-> 0, address |-> 0, blockNumber |-> 0]

ProposalIsNull(p) == p.superblock = 0

\* Proposal::isValid. name 0 stands for a name the regex rejects, address 0 for
\* an address that decodes to no destination.
ProposalIsValid(p) ==
    /\ p.name # 0
    /\ p.superblock % superblockPeriod = 0
    /\ p.amount >= proposalMinAmount
    /\ p.amount <= Min(proposalMaxAmount, GetBlockSubsidy(p.superblock))
    /\ p.address # 0
    /\ p.type = PROPOSAL
    /\ p.version = NETWORK_VERSION

\* Vote::getHash: digest of version, type, proposal, utxo (the vote kind excluded)
VoteHash(v) == <<v.proposal, v.utxo>>

\* Vote::sigHash: digest of version, type, proposal, vote, utxo, vinhash, as the
\* unsigned integer UintToArith256 makes of it.
SigHash(v) ==
    LET ph == v.proposal[3] * 7 + v.proposal[4] * 3 + v.proposal[5]
        code == ((ph * 3 + v.vote) * 8 + v.utxo) * 256 + v.vinhash
    IN (code * 523) % 1000003

\* makeVinHash: the 12-byte prefix of the digest of a prevout
makeVinHash(prevout) == (prevout * 29 + 5) % 251

\* Vote::spend, Vote::unspend, Vote::spent
VoteSpend(v, block, txhash) == [v EXCEPT !.spentBlock = block, !.spentHash = txhash]
\* Vote::unspend that resets the hash and leaves the block
VoteUnspendHashOnly(v, block, txhash) ==
    IF v.spentBlock = block /\ v.spentHash = txhash
    THEN [v EXCEPT !.spentHash = NullHash]
    ELSE v
VoteUnspend(v, block, txhash) ==
    IF v.spentBlock = block /\ v.spentHash = txhash
    THEN [v EXCEPT !.spentBlock = 0, !.spentHash = NullHash]
    ELSE v
VoteSpent(v) == v.spentBlock > 0

\* Vote(): the default vote that votes[h] creates for a missing key
NullVote ==
    [version |-> NETWORK_VERSION, type |-> VOTE, proposal |-> NullHash, vote |-> ABSTAIN,
     utxo |-> 0, vinhash |-> 0, pubkey |-> 0, keyid |-> 0, amount |-> 0, outpoint |-> NullHash,
     time |-> 0, blockNumber |-> 0, spentBlock |-> 0, spentHash |-> NullHash]

\* Vote::isValid(params), Vote::isValid(vinHashes, params)
VoteIsValid(v) ==
    /\ v.version = NETWORK_VERSION /\ v.type = VOTE /\ v.vote \in {NO, YES, ABSTAIN}
    /\ v.amount >= voteMinUtxoAmount
    /\ v.keyid # 0
    /\ v.pubkey = v.keyid
VoteIsValidIn(v, vinHashes) == VoteIsValid(v) /\ v.vinhash \in vinHashes

\* ------------------------------------------------------------------------
\* State store: addProposal, removeProposal, addVote, removeVote,
\* spendVote(Vote*), unspendVote(Vote*) and the queries
\* ------------------------------------------------------------------------
EmptyStore == [proposals |-> EmptyMap, votes |-> EmptyMap, sbvotes |-> EmptyMap]

hasProposal(st, hash, blockNumber) ==
    hash \in DOMAIN st.proposals /\ st.proposals[hash].blockNumber < blockNumber

getProposal(st, hash) ==
    IF hash \in DOMAIN st.proposals THEN st.proposals[hash] ELSE NullProposal

\* addProposal that overwrites an existing proposal
addProposalOverwrite(st, p) == [st EXCEPT !.proposals = Put(@, ProposalHash(p), p)]

addProposal(st, p) ==
    IF ProposalHash(p) \in DOMAIN st.proposals THEN st
    ELSE [st EXCEPT !.proposals = Put(@, ProposalHash(p), p)]

removeProposal(st, p) == [st EXCEPT !.proposals = Del(@, ProposalHash(p))]

addVote(st, v) ==
    IF v.proposal \notin DOMAIN st.proposals THEN st
    ELSE LET sb == st.proposals[v.proposal].superblock
             vs == IF sb \in DOMAIN st.sbvotes THEN st.sbvotes[sb] ELSE EmptyMap
         IN [st EXCEPT !.votes = Put(@, VoteHash(v), v),
                       !.sbvotes = Put(@, sb, Put(vs, VoteHash(v), v))]

\* removeVote without the erase from the superblock index
removeVoteKeepsIndex(st, v) ==
    IF VoteHash(v) \notin DOMAIN st.votes THEN st
    ELSE [st EXCEPT !.votes = Del(@, VoteHash(v))]

removeVote(st, v) ==
    LET voteHash == VoteHash(v) IN
    IF voteHash \notin DOMAIN st.votes THEN st
    ELSE LET st1 == [st EXCEPT !.votes = Del(@, voteHash)] IN
         IF v.proposal \notin DOMAIN st.proposals THEN st1
         ELSE LET sb == st.proposals[v.proposal].superblock IN
              IF sb \notin DOMAIN st.sbvotes THEN st1
              ELSE IF voteHash \notin DOMAIN st.sbvotes[sb] THEN st1
              ELSE [st1 EXCEPT !.sbvotes[sb] = Del(@, voteHash)]

\* spendVote without the test of the block against the superblock
spendVoteAnyBlock(st, sb, h, block, txhash) ==
    LET v == st.sbvotes[sb][h] IN
    IF v.proposal \notin DOMAIN st.proposals THEN st
    ELSE LET vv == IF VoteHash(v) \in DOMAIN st.votes THEN st.votes[VoteHash(v)] ELSE NullVote
         IN [st EXCEPT !.sbvotes[sb][h] = VoteSpend(v, block, txhash),
                       !.votes = Put(@, VoteHash(v), VoteSpend(vv, block, txhash))]

\* spendVote(Vote *vote, block, txhash): vote points at sbvotes[sb][h]
spendVote(st, sb, h, block, txhash) ==
    LET v == st.sbvotes[sb][h] IN
    IF v.proposal \notin DOMAIN st.proposals THEN st
    ELSE IF block > st.proposals[v.proposal].superblock THEN st
    ELSE LET vv == IF VoteHash(v) \in DOMAIN st.votes THEN st.votes[VoteHash(v)] ELSE NullVote
         IN [st EXCEPT !.sbvotes[sb][h] = VoteSpend(v, block, txhash),
                       !.votes = Put(@, VoteHash(v), VoteSpend(vv, block, txhash))]

\* unspendVote(Vote *vote, block, txhash): vote points at sbvotes[sb][h]
unspendVote(st, sb, h, block, txhash) ==
    LET v == st.sbvotes[sb][h] IN
    IF v.proposal \notin DOMAIN st.proposals THEN st
    ELSE IF block > st.proposals[v.proposal].superblock THEN st
    ELSE LET st1 == [st EXCEPT !.sbvotes[sb][h] = VoteUnspend(v, block, txhash)] IN
         IF VoteHash(v) \in DOMAIN st.votes
         THEN [st1 EXCEPT !.votes[VoteHash(v)] = VoteUnspend(@, block, txhash)]
         ELSE st1

\* The vote of sbvotes that the Vote & overloads update: v applied to
\* sbvotes[superblock][hash of vote], when both keys exist
SyncSBVote(st, vote, v) ==
    LET sb == st.proposals[vote.proposal].superblock IN
    IF sb \notin DOMAIN st.sbvotes THEN st
    ELSE IF VoteHash(vote) \notin DOMAIN st.sbvotes[sb] THEN st
    ELSE [st EXCEPT !.sbvotes[sb][VoteHash(vote)] = v]

\* spendVote(Vote & vote, block, txhash): the store and the caller's vote after the call
spendVoteRef(st, vote, block, txhash) ==
    IF vote.proposal \notin DOMAIN st.proposals THEN [st |-> st, vote |-> vote]
    ELSE IF block > st.proposals[vote.proposal].superblock THEN [st |-> st, vote |-> vote]
    ELSE LET sb == st.proposals[vote.proposal].superblock
             v == IF sb \in DOMAIN st.sbvotes /\ VoteHash(vote) \in DOMAIN st.sbvotes[sb]
                  THEN VoteSpend(st.sbvotes[sb][VoteHash(vote)], block, txhash)
                  ELSE NullVote
         IN [st |-> SyncSBVote(st, vote, v), vote |-> VoteSpend(vote, block, txhash)]

\* unspendVote(Vote & vote, block, txhash): the store and the caller's vote after the call
unspendVoteRef(st, vote, block, txhash) ==
    IF vote.proposal \notin DOMAIN st.proposals THEN [st |-> st, vote |-> vote]
    ELSE IF block > st.proposals[vote.proposal].superblock THEN [st |-> st, vote |-> vote]
    ELSE LET sb == st.proposals[vote.proposal].superblock
             v == IF sb \in DOMAIN st.sbvotes /\ VoteHash(vote) \in DOMAIN st.sbvotes[sb]
                  THEN VoteUnspend(st.sbvotes[sb][VoteHash(vote)], block, txhash)
                  ELSE NullVote
         IN [st |-> SyncSBVote(st, vote, v), vote |-> VoteUnspend(vote, block, txhash)]

\* getProposalsSince(since): the proposals whose superblock is at or after since
getProposalsSince(st, since) == {p \in Range(st.proposals) : p.superblock >= since}

\* getMutableSBVotes(proposalHash): pointers <<sb, h>> to the unspent votes of
\* the proposal in sbvotes
getMutableSBVotes(st, proposalHash) ==
    IF proposalHash \notin DOMAIN st.proposals THEN {}
    ELSE LET sb == st.proposals[proposalHash].superblock IN
         IF sb \notin DOMAIN st.sbvotes THEN {}
         ELSE {<<sb, h>> : h \in {x \in DOMAIN st.sbvotes[sb] :
                                    /\ st.sbvotes[sb][x].proposal = proposalHash
                                    /\ ~VoteSpent(st.sbvotes[sb][x])}}

\* ------------------------------------------------------------------------
\* Chain state consulted through GetKeyIDForUTXO / pcoinsTip
\* ------------------------------------------------------------------------
\* Vote::loadKeyID: the key and the amount of the voted utxo (0: unknown utxo)
UtxoKeyId(u) == CASE u = 1 -> 1 [] u = 2 -> 2 [] u = 3 -> 2 [] u = 4 -> 3 [] OTHER -> 0
UtxoAmount(u) == CASE u = 1 -> 3 [] u = 2 -> 2 [] u = 3 -> 5 [] u = 4 -> 4 [] OTHER -> 0

\* prevouts: map<outpoint, txhash> of every input spent by the block; a later
\* transaction overwrites an earlier one
RECURSIVE BlockPrevoutsFrom(_, _, _)
BlockPrevoutsFrom(vtx, i, acc) ==
    IF i > Len(vtx) THEN acc
    ELSE BlockPrevoutsFrom(vtx, i + 1,
             [o \in (DOMAIN acc) \cup vtx[i].vin |->
                 IF o \in vtx[i].vin THEN vtx[i].hash ELSE acc[o]])
BlockPrevouts(block) == BlockPrevoutsFrom(block.vtx, 1, EmptyMap)

\* The outpoints consumed by blocks 1..h of a chain (the coins pcoinsTip lacks)
SpentUpTo(ch, h) == UNION {DOMAIN BlockPrevouts(ch[i]) : i \in 1..h}

\* IsVoteSpent that finds every coin in the utxo set
IsVoteSpentNever(v, coinsSpent) == FALSE

\* IsVoteSpent(vote, mempoolCheck = false): the coin is not in the utxo set
IsVoteSpent(v, coinsSpent) == v.utxo \in coinsSpent

\* ------------------------------------------------------------------------
\* Cutoffs and superblocks
\* ------------------------------------------------------------------------
isSuperblock(blockHeight) ==
    blockHeight >= governanceBlock /\ blockHeight % superblockPeriod = 0

NextSuperblock(fromBlock) == (fromBlock - (fromBlock % superblockPeriod)) + superblockPeriod

\* outsideProposalCutoff without the comparison with the superblock
outsideProposalCutoffAlways(p, blockNumber) == ~ProposalIsNull(p)

outsideProposalCutoff(p, blockNumber) ==
    IF ProposalIsNull(p) THEN FALSE
    ELSE blockNumber < p.superblock - proposalCutoff

\* outsideVotingCutoff without the comparison with the superblock
outsideVotingCutoffAlways(p, blockNumber) == ~ProposalIsNull(p)

outsideVotingCutoff(p, blockNumber) ==
    IF ProposalIsNull(p) THEN FALSE
    ELSE blockNumber < p.superblock - votingCutoff

\* insideVoteCutoff that leaves out the first block of the cutoff
insideVoteCutoffLate(sb, blockNumber) ==
    blockNumber > sb - votingCutoff /\ blockNumber <= sb

insideVoteCutoff(sb, blockNumber) ==
    blockNumber >= sb - votingCutoff /\ blockNumber <= sb

\* ------------------------------------------------------------------------
\* dataFromBlock
\* ------------------------------------------------------------------------
\* std::set<Vote>::insert: an element with the same vote-id is never replaced
VoteSetInsert(vs, v) ==
    IF \E w \in vs : VoteHash(w) = VoteHash(v) THEN vs ELSE vs \cup {v}

\* std::set<Proposal>::insert
ProposalSetInsert(ps, p) ==
    IF \E q \in ps : ProposalHash(q) = ProposalHash(p) THEN ps ELSE ps \cup {p}

\* The Proposal deserialised from an output
ParseProposal(out, hasIndex, h) ==
    [version |-> out.version, type |-> out.type, name |-> out.name,
     superblock |-> out.superblock, amount |-> out.amount, address |-> out.address,
     blockNumber |-> IF hasIndex THEN h ELSE 0]

\* The Vote deserialised without the height of the block index
ParseVoteAtZero(out, tx, n, time, hasIndex, h) ==
    [version |-> out.version, type |-> out.type, proposal |-> out.proposal,
     vote |-> out.vote, utxo |-> out.utxo, vinhash |-> out.vinhash, pubkey |-> out.pubkey,
     keyid |-> UtxoKeyId(out.utxo), amount |-> UtxoAmount(out.utxo),
     outpoint |-> <<tx.hash, n>>, time |-> time,
     blockNumber |-> 0,
     spentBlock |-> 0, spentHash |-> NullHash]

\* The Vote deserialised from output n of tx (pubkey recovered, key and amount loaded)
ParseVote(out, tx, n, time, hasIndex, h) ==
    [version |-> out.version, type |-> out.type, proposal |-> out.proposal,
     vote |-> out.vote, utxo |-> out.utxo, vinhash |-> out.vinhash, pubkey |-> out.pubkey,
     keyid |-> UtxoKeyId(out.utxo), amount |-> UtxoAmount(out.utxo),
     outpoint |-> <<tx.hash, n>>, time |-> time,
     blockNumber |-> IF hasIndex THEN h ELSE 0,
     spentBlock |-> 0, spentHash |-> NullHash]

VinHashes(tx) == {makeVinHash(o) : o \in tx.vin}

\* One iteration of the loop over tx->vout; acc = [ps, vs, error]. An output is
\* the payload of an OP_RETURN script: its first two bytes (version, type) and
\* the fields that follow, complete being false for a payload that ends before
\* its last field. ss2 >> proposal and ss2 >> vote throw on such a payload
\* (CDataStream::read, end of data) and nothing catches: error records that
\* the exception left dataFromBlock, the outputs after it are not visited.
dataFromOut(st, acc, tx, n, time, hasIndex, h, checkProposal) ==
    LET out == tx.vout[n] IN
    IF acc.error THEN acc
    ELSE IF out.version # NETWORK_VERSION THEN acc
    ELSE IF out.type = PROPOSAL THEN
        IF ~out.complete THEN [acc EXCEPT !.error = TRUE] ELSE
        LET proposal == ParseProposal(out, hasIndex, h) IN
        IF ProposalIsValid(proposal) /\ (~hasIndex \/ outsideProposalCutoff(proposal, h))
        THEN [acc EXCEPT !.ps = ProposalSetInsert(@, proposal)]
        ELSE acc
    ELSE IF out.type = VOTE THEN
        IF ~out.complete THEN [acc EXCEPT !.error = TRUE] ELSE
        LET vote == ParseVote(out, tx, n, time, hasIndex, h) IN
        IF \/ (hasIndex /\ checkProposal /\ ~hasProposal(st, vote.proposal, h))
           \/ ~VoteIsValidIn(vote, VinHashes(tx))
           \/ (hasIndex /\ ~outsideVotingCutoff(getProposal(st, vote.proposal), h))
        THEN acc
        ELSE [acc EXCEPT !.vs = VoteSetInsert(@, vote)]
    ELSE acc

\* The outputs of a block in the order the loops visit them: <<tx index, n>>
RECURSIVE OutputsFrom(_, _)
OutputsFrom(vtx, i) ==
    IF i > Len(vtx) THEN <<>>
    ELSE [n \in 1..Len(vtx[i].vout) |-> <<i, n>>] \o OutputsFrom(vtx, i + 1)
BlockOutputs(block) == OutputsFrom(block.vtx, 1)

RECURSIVE dataFromOutputs(_, _, _, _, _, _, _, _)
dataFromOutputs(st, acc, block, outs, k, hasIndex, h, checkProposal) ==
    IF k > Len(outs) THEN acc
    ELSE dataFromOutputs(st,
             dataFromOut(st, acc, block.vtx[outs[k][1]], outs[k][2], block.time,
                         hasIndex, h, checkProposal),
             block, outs, k + 1, hasIndex, h, checkProposal)

dataFromBlock(st, block, hasIndex, h, checkProposal) ==
    dataFromOutputs(st, [ps |-> {}, vs |-> {}, error |-> FALSE], block, BlockOutputs(block), 1,
                    hasIndex, h, checkProposal)

\* ------------------------------------------------------------------------
\* processBlock
\* ------------------------------------------------------------------------
RECURSIVE addProposals(_, _)
addProposals(st, ps) ==
    IF ps = {} THEN st
    ELSE LET p == CHOOSE x \in ps : TRUE IN addProposals(addProposal(st, p), ps \ {p})

\* processVote with the time test reversed: an older vote replaces a newer one
processVoteOlderWins(st, vote, processingChainTip, coinsSpent) ==
    IF processingChainTip /\ vote.proposal \notin DOMAIN st.proposals THEN st
    ELSE IF VoteHash(vote) \in DOMAIN st.votes THEN
        IF vote.time < st.votes[VoteHash(vote)].time THEN addVote(st, vote)
        ELSE st
    ELSE IF processingChainTip /\ IsVoteSpent(vote, coinsSpent) THEN st
    ELSE addVote(st, vote)

\* One iteration of the loop over the extracted votes
processVote(st, vote, processingChainTip, coinsSpent) ==
    IF processingChainTip /\ vote.proposal \notin DOMAIN st.proposals THEN st
    ELSE IF VoteHash(vote) \in DOMAIN st.votes THEN
        IF vote.time > st.votes[VoteHash(vote)].time THEN addVote(st, vote)
        ELSE IF SigHash(vote) > SigHash(st.votes[VoteHash(vote)]) THEN addVote(st, vote)
        ELSE st
    ELSE IF processingChainTip /\ IsVoteSpent(vote, coinsSpent) THEN st
    ELSE addVote(st, vote)

RECURSIVE processVotes(_, _, _, _)
processVotes(st, vs, processingChainTip, coinsSpent) ==
    IF vs = {} THEN st
    ELSE LET v == CHOOSE x \in vs : TRUE IN
         processVotes(processVote(st, v, processingChainTip, coinsSpent), vs \ {v},
                      processingChainTip, coinsSpent)

\* The votes of the proposals with superblock >= height, as pointers into sbvotes
SinceVotes(st, height) ==
    UNION {getMutableSBVotes(st, ProposalHash(p)) : p \in getProposalsSince(st, height)}

RECURSIVE spendVotes(_, _, _, _)
spendVotes(st, svotes, height, prevouts) ==
    IF svotes = {} THEN st
    ELSE LET ptr == CHOOSE x \in svotes : TRUE
             v == st.sbvotes[ptr[1]][ptr[2]]
         IN spendVotes(IF v.utxo \in DOMAIN prevouts
                       THEN spendVote(st, ptr[1], ptr[2], height, prevouts[v.utxo])
                       ELSE st,
                       svotes \ {ptr}, height, prevouts)

processBlock(st, block, height, processingChainTip, coinsSpent) ==
    LET d == dataFromBlock(st, block, TRUE, height, processingChainTip)
        st1 == addProposals(st, d.ps)
        st2 == processVotes(st1, d.vs, processingChainTip, coinsSpent)
    IN IF d.error THEN st   \* the exception leaves before the store is touched
       ELSE IF ~processingChainTip \/ DOMAIN st2.votes = {} THEN st2
       ELSE spendVotes(st2, SinceVotes(st2, height), height, BlockPrevouts(block))

\* ------------------------------------------------------------------------
\* BlockDisconnected
\* ------------------------------------------------------------------------
RECURSIVE removeVotesAt(_, _, _)
removeVotesAt(st, vs, blockHeight) ==
    IF vs = {} THEN st
    ELSE LET v == CHOOSE x \in vs : TRUE
             st1 == IF VoteHash(v) \in DOMAIN st.votes
                       /\ st.votes[VoteHash(v)].blockNumber = blockHeight
                    THEN removeVote(st, v) ELSE st
         IN removeVotesAt(st1, vs \ {v}, blockHeight)

RECURSIVE removeProposalsAt(_, _, _)
removeProposalsAt(st, ps, blockHeight) ==
    IF ps = {} THEN st
    ELSE LET p == CHOOSE x \in ps : TRUE
             st1 == IF ProposalHash(p) \in DOMAIN st.proposals
                       /\ st.proposals[ProposalHash(p)].blockNumber = blockHeight
                    THEN removeProposal(st, p) ELSE st
         IN removeProposalsAt(st1, ps \ {p}, blockHeight)

RECURSIVE unspendVotes(_, _, _, _)
unspendVotes(st, svotes, height, prevouts) ==
    IF svotes = {} THEN st
    ELSE LET ptr == CHOOSE x \in svotes : TRUE
             v == st.sbvotes[ptr[1]][ptr[2]]
         IN unspendVotes(IF v.utxo \in DOMAIN prevouts
                         THEN unspendVote(st, ptr[1], ptr[2], height, prevouts[v.utxo])
                         ELSE st,
                         svotes \ {ptr}, height, prevouts)

\* BlockDisconnected that removes the proposals of the block and leaves its votes
BlockDisconnectedKeepVotes(st, block, blockHeight) ==
    LET d == dataFromBlock(st, block, FALSE, 0, TRUE)
        st2 == removeProposalsAt(st, d.ps, blockHeight)
    IN IF d.error THEN st
       ELSE unspendVotes(st2, SinceVotes(st2, blockHeight), blockHeight, BlockPrevouts(block))

BlockDisconnected(st, block, blockHeight) ==
    LET d == dataFromBlock(st, block, FALSE, 0, TRUE)
        st1 == removeVotesAt(st, d.vs, blockHeight)
        st2 == removeProposalsAt(st1, d.ps, blockHeight)
    IN IF d.error THEN st
       ELSE unspendVotes(st2, SinceVotes(st2, blockHeight), blockHeight, BlockPrevouts(block))

\* ------------------------------------------------------------------------
\* Queries: getVotes, getProposals, getProposalsForSuperblock
\* ------------------------------------------------------------------------
\* A vector holding the elements of a set (the iteration order of an
\* unordered_map is whatever the container gives)
RECURSIVE SeqOfSet(_)
SeqOfSet(S) ==
    IF S = {} THEN <<>>
    ELSE LET x == CHOOSE y \in S : TRUE IN <<x>> \o SeqOfSet(S \ {x})

\* getVotes(superblock) that also returns the spent votes
getVotesWithSpent(st, sb) ==
    IF sb \notin DOMAIN st.sbvotes THEN {}
    ELSE Range(st.sbvotes[sb])

\* getVotes(superblock): the votes of sbvotes[superblock] that are not spent
getVotes(st, sb) ==
    IF sb \notin DOMAIN st.sbvotes THEN {}
    ELSE {v \in Range(st.sbvotes[sb]) : ~VoteSpent(v)}

\* getVotes(): all votes that are not spent
getVotesAll(st) == {v \in Range(st.votes) : ~VoteSpent(v)}

\* getVotes(proposalHash): the unspent votes of one proposal
getVotesFor(st, proposalHash) ==
    IF proposalHash \notin DOMAIN st.proposals THEN {}
    ELSE LET sb == st.proposals[proposalHash].superblock IN
         IF sb \notin DOMAIN st.sbvotes THEN {}
         ELSE {v \in Range(st.sbvotes[sb]) : v.proposal = proposalHash /\ ~VoteSpent(v)}

\* getProposals(superblock)
getProposals(st, sb) == {p \in Range(st.proposals) : p.superblock = sb}

\* getProposalsForSuperblock: [ps, vs], vs the votes of the selected proposals
getProposalsForSuperblock(st, sb) ==
    LET ps == getProposals(st, sb)
        hashes == {ProposalHash(p) : p \in ps}
    IN [ps |-> ps, vs |-> SeqOfSet({v \in getVotes(st, sb) : v.proposal \in hashes})]

\* utxoInVoteCutoff(utxo, tipHeight): NextSuperblock takes the height of the
\* active chain when its fromBlock argument is 0
utxoInVoteCutoff(st, utxo, tipHeight, chainHeight) ==
    LET superblock == IF tipHeight = 0 THEN NextSuperblock(chainHeight)
                      ELSE NextSuperblock(tipHeight)
    IN IF ~insideVoteCutoff(superblock, tipHeight) THEN FALSE
       ELSE LET svotes == getProposalsForSuperblock(st, superblock).vs
            IN \E i \in DOMAIN svotes : svotes[i].utxo = utxo

\* ------------------------------------------------------------------------
\* getTally
\* ------------------------------------------------------------------------
\* C++ integer division (truncation toward zero)
TruncDiv(a, b) == IF a >= 0 THEN a \div b ELSE -((-a) \div b)

\* std::set<Vote>::insert(first, last): elements whose vote-id is present stay
VoteSetInsertAll(dst, src) ==
    dst \cup {w \in src : ~\E x \in dst : VoteHash(x) = VoteHash(w)}

\* The search containers: userVotes by outpoint.hash, userVotesDest by key id,
\* filled in the order of the vector
RECURSIVE GroupVotes(_, _, _)
GroupVotes(votes, i, acc) ==
    IF i > Len(votes) THEN acc
    ELSE LET vote == votes[i]
             tx == vote.outpoint[1]
             dest == vote.pubkey
             v == IF tx \in DOMAIN acc.userVotes THEN acc.userVotes[tx] ELSE {}
             v2 == IF dest \in DOMAIN acc.userVotesDest THEN acc.userVotesDest[dest] ELSE {}
         IN GroupVotes(votes, i + 1,
                [userVotes |-> Put(acc.userVotes, tx, VoteSetInsert(v, vote)),
                 userVotesDest |-> Put(acc.userVotesDest, dest, VoteSetInsert(v2, vote))])

RECURSIVE SumAmount(_, _)
SumAmount(vs, kind) ==
    IF vs = {} THEN 0
    ELSE LET v == CHOOSE x \in vs : TRUE IN
         (IF v.vote = kind THEN v.amount ELSE 0) + SumAmount(vs \ {v}, kind)

\* The Tally of one user with the counts rounded up
UserTallyRoundUp(allUnique) ==
    LET cyes == SumAmount(allUnique, YES)
        cno == SumAmount(allUnique, NO)
        cabstain == SumAmount(allUnique, ABSTAIN)
    IN [cyes |-> cyes, cno |-> cno, cabstain |-> cabstain,
        yes |-> (cyes + voteBalance - 1) \div voteBalance,
        no |-> (cno + voteBalance - 1) \div voteBalance,
        abstain |-> (cabstain + voteBalance - 1) \div voteBalance]

\* The Tally of one user: amounts by kind, counts clamped at zero
UserTally(allUnique) ==
    LET cyes == SumAmount(allUnique, YES)
        cno == SumAmount(allUnique, NO)
        cabstain == SumAmount(allUnique, ABSTAIN)
        pos(x) == IF x < 0 THEN 0 ELSE x
    IN [cyes |-> cyes, cno |-> cno, cabstain |-> cabstain,
        yes |-> pos(TruncDiv(cyes, voteBalance)),
        no |-> pos(TruncDiv(cno, voteBalance)),
        abstain |-> pos(TruncDiv(cabstain, voteBalance))]

ZeroTally == [cyes |-> 0, cno |-> 0, cabstain |-> 0, yes |-> 0, no |-> 0, abstain |-> 0]

AddTally(a, b) ==
    [cyes |-> a.cyes + b.cyes, cno |-> a.cno + b.cno, cabstain |-> a.cabstain + b.cabstain,
     yes |-> a.yes + b.yes, no |-> a.no + b.no, abstain |-> a.abstain + b.abstain]

\* The votes of the destinations of the votes of one transaction
DestVotes(g, txVotes) ==
    UNION {g.userVotesDest[v.pubkey] : v \in txVotes}

\* TallyUsers without the removal of the votes already counted
RECURSIVE TallyUsersNoFilter(_, _, _)
TallyUsersNoFilter(g, keys, acc) ==
    IF keys = {} THEN acc
    ELSE LET tx == CHOOSE k \in keys : \A k2 \in keys : k <= k2
             all == VoteSetInsertAll(g.userVotes[tx], DestVotes(g, g.userVotes[tx]))
         IN TallyUsersNoFilter(g, keys \ {tx},
                     [counted |-> VoteSetInsertAll(acc.counted, all),
                      tallies |-> Append(acc.tallies, UserTally(all)),
                      tally |-> AddTally(acc.tally, UserTally(all))])

\* The loop over userVotes in key order; acc = [counted, tallies, tally], tally
\* being the sum of the vector tallies
RECURSIVE TallyUsers(_, _, _)
TallyUsers(g, keys, acc) ==
    IF keys = {} THEN acc
    ELSE LET tx == CHOOSE k \in keys : \A k2 \in keys : k <= k2
             all == VoteSetInsertAll(g.userVotes[tx], DestVotes(g, g.userVotes[tx]))
             allUnique == {v \in all : ~\E c \in acc.counted : VoteHash(c) = VoteHash(v)}
         IN IF allUnique = {} THEN TallyUsers(g, keys \ {tx}, acc)
            ELSE TallyUsers(g, keys \ {tx},
                     [counted |-> VoteSetInsertAll(acc.counted, allUnique),
                      tallies |-> Append(acc.tallies, UserTally(allUnique)),
                      tally |-> AddTally(acc.tally, UserTally(allUnique))])

TallyRun(proposal, votes) ==
    LET proposalVotes == SelectSeq(votes, LAMBDA v : v.proposal = proposal)
        g == GroupVotes(proposalVotes, 1, [userVotes |-> EmptyMap, userVotesDest |-> EmptyMap])
    IN TallyUsers(g, DOMAIN g.userVotes,
                  [counted |-> {}, tallies |-> <<>>, tally |-> ZeroTally])

getTally(proposal, votes) == TallyRun(proposal, votes).tally

\* ------------------------------------------------------------------------
\* Blocks offered to the live chain
\* ------------------------------------------------------------------------
\* Every transaction of a chain has its own hash and its own fee input
TxId(h, k) == h * 10 + k
FeeIn(txid) == 100 + txid

ProposalOut(name, sb, amount, address) ==
    [version |-> NETWORK_VERSION, type |-> PROPOSAL, name |-> name, superblock |-> sb,
     amount |-> amount, address |-> address, complete |-> TRUE]

\* A vote output signed by the owner of the utxo, bound to the fee input of txid
VoteOut(p, vote, utxo, txid) ==
    [version |-> NETWORK_VERSION, type |-> VOTE, proposal |-> ProposalHash(p),
     vote |-> vote, utxo |-> utxo, vinhash |-> makeVinHash(FeeIn(txid)),
     pubkey |-> UtxoKeyId(utxo), complete |-> TRUE]

Tx(txid, vin, vout) == [hash |-> txid, vin |-> vin, vout |-> vout]

PA == ProposalOut(1, superblockPeriod, 3, 1)

VoteTimes == {1, 2}

LiveBlocks(h) ==
    {[time |-> 1, vtx |-> <<>>],
     [time |-> 1, vtx |-> <<Tx(TxId(h, 1), {FeeIn(TxId(h, 1))}, <<PA>>)>>],
     [time |-> 1, vtx |-> <<Tx(TxId(h, 2), {1}, <<>>)>>]}
    \cup {[time |-> t,
           vtx |-> <<Tx(TxId(h, 3), {FeeIn(TxId(h, 3))}, <<VoteOut(PA, c, 1, TxId(h, 3))>>)>>] :
          t \in VoteTimes, c \in {YES, NO}}

\* No query is being evaluated
FxIdle == [op |-> "none"]

\* The loader is not running
LdIdle ==
    [phase |-> "idle", cores |-> 0, shutdown |-> FALSE, failed |-> FALSE, ret |-> FALSE,
     spentPrevouts |-> EmptyMap, tmpvotes |-> <<>>, w |-> <<>>]

\* ------------------------------------------------------------------------
\* Live mode: BlockConnected and BlockDisconnected from the validation interface
\* ------------------------------------------------------------------------
Init ==
    /\ chain = <<>>
    /\ store = EmptyStore
    /\ last = [op |-> "init", height |-> 0, pre |-> EmptyStore, vs |-> {}, error |-> FALSE]
    /\ ld = LdIdle
    /\ fx = FxIdle

\* BlockConnected: a block extending the tip, spending only unspent outpoints
ConnectBlock(block) ==
    LET h == Len(chain) + 1
        ch == Append(chain, block)
        d == dataFromBlock(store, block, TRUE, h, TRUE)
    IN /\ DOMAIN BlockPrevouts(block) \cap SpentUpTo(chain, Len(chain)) = {}
       /\ chain' = ch
       /\ store' = processBlock(store, block, h, TRUE, SpentUpTo(ch, h))
       /\ last' = [op |-> "connect", height |-> h, pre |-> store, vs |-> d.vs,
                   error |-> d.error]
       /\ UNCHANGED <<ld, fx>>

Connect ==
    /\ Len(chain) < MaxHeight
    /\ \E block \in LiveBlocks(Len(chain) + 1) : ConnectBlock(block)

\* BlockDisconnected: the tip is disconnected
Disconnect ==
    /\ Len(chain) > 0
    /\ LET h == Len(chain)
           block == chain[h]
       IN /\ chain' = SubSeq(chain, 1, h - 1)
          /\ store' = BlockDisconnected(store, block, h)
          /\ last' = [op |-> "disconnect", height |-> h, pre |-> store, vs |-> {},
                      error |-> dataFromBlock(store, block, FALSE, 0, TRUE).error]
          /\ UNCHANGED <<ld, fx>>

vars == <<chain, store, last, ld, fx>>

Next == Connect \/ Disconnect

Spec == Init /\ [][Next]_vars

\* ------------------------------------------------------------------------
\* loadGovernanceData: the chain is scanned by cores workers, each over its
\* shard of block heights (pass 1), then the votes are re-checked and marked
\* spent by cores workers, each over its shard of the snapshot (pass 2)
\* ------------------------------------------------------------------------
LoadKinds == {"empty", "proposal", "voteYes", "voteNo", "spend"}

\* The block of each kind at height h
LoadBlock(h, kind) ==
    CASE kind = "proposal" ->
            [time |-> 1, vtx |-> <<Tx(TxId(h, 1), {FeeIn(TxId(h, 1))}, <<PA>>)>>]
      [] kind = "spend" ->
            [time |-> 1, vtx |-> <<Tx(TxId(h, 2), {1}, <<>>)>>]
      [] kind = "voteYes" ->
            [time |-> 1, vtx |-> <<Tx(TxId(h, 3), {FeeIn(TxId(h, 3))},
                                      <<VoteOut(PA, YES, 1, TxId(h, 3))>>)>>]
      [] kind = "voteNo" ->
            [time |-> 2, vtx |-> <<Tx(TxId(h, 3), {FeeIn(TxId(h, 3))},
                                      <<VoteOut(PA, NO, 1, TxId(h, 3))>>)>>]
      [] OTHER -> [time |-> 1, vtx |-> <<>>]

\* No block of the chain spends an outpoint that a lower block has spent
ValidChain(ch) ==
    \A h \in 1..Len(ch) : DOMAIN BlockPrevouts(ch[h]) \cap SpentUpTo(ch, h - 1) = {}

\* The shard of worker k in pass 1: block heights start..end-1
P1Slice(cores, blockHeight) == (blockHeight - governanceBlock) \div cores
P1Start(k, cores, blockHeight) == governanceBlock + k * P1Slice(cores, blockHeight)
\* P1End without the bound check for the last worker
P1EndNoTail(k, cores, blockHeight) ==
    P1Start(k, cores, blockHeight) + P1Slice(cores, blockHeight)

P1End(k, cores, blockHeight) ==
    IF k = cores - 1 THEN blockHeight + 1
    ELSE P1Start(k, cores, blockHeight) + P1Slice(cores, blockHeight)

\* The shard of worker k in pass 2: indexes start..end-1 of tmpvotes (from 0)
P2Slice(cores, size) == size \div cores
P2Start(k, cores, size) == k * P2Slice(cores, size)
P2End(k, cores, size) ==
    IF k = cores - 1 THEN size ELSE P2Start(k, cores, size) + P2Slice(cores, size)

\* for (i = start; i < end; ++i): the position of a worker at the loop head
LoopHead(i, end) == IF i < end THEN "loop" ELSE "done"

Worker(start, end) ==
    [pc |-> LoopHead(start, end), i |-> start, end |-> end,
     ps |-> {}, vs |-> {}, pv |-> NullVote]

\* spentPrevouts[vin.prevout] = {tx->GetHash(), blockIndex->nHeight} for the block
RecordPrevouts(sp, block, h) ==
    LET po == BlockPrevouts(block) IN
    [o \in (DOMAIN sp) \cup (DOMAIN po) |-> IF o \in DOMAIN po THEN <<po[o], h>> ELSE sp[o]]

\* The loop of processBlock over the extracted votes with processingChainTip
\* false, up to the point where mu is released (LEAVE_CRITICAL_SECTION) for a
\* vote that is not stored yet: pv is that vote, vs the votes still to visit
RECURSIVE voteLoop(_, _)
voteLoop(st, vs) ==
    IF vs = {} THEN [st |-> st, vs |-> {}, pv |-> NullVote, wait |-> FALSE]
    ELSE LET v == CHOOSE x \in vs : TRUE IN
         IF VoteHash(v) \in DOMAIN st.votes
         THEN voteLoop(processVote(st, v, FALSE, {}), vs \ {v})
         ELSE [st |-> st, vs |-> vs \ {v}, pv |-> v, wait |-> TRUE]

\* The worker after a run of the vote loop: waiting to take mu again, or at
\* the head of the block loop with the next block
AfterVoteLoop(wk, r) ==
    IF r.wait THEN [wk EXCEPT !.pc = "relock", !.ps = {}, !.vs = r.vs, !.pv = r.pv]
    ELSE [wk EXCEPT !.pc = LoopHead(wk.i + 1, wk.end), !.i = wk.i + 1,
                    !.ps = {}, !.vs = {}, !.pv = NullVote]

\* The body of p2 for one vote of the snapshot
p2Vote(st, vote, sp) ==
    IF hasProposal(st, vote.proposal, vote.blockNumber)
    THEN IF /\ vote.utxo \in DOMAIN sp
            /\ sp[vote.utxo][2] <= getProposal(st, vote.proposal).superblock
         THEN addVote(st, VoteSpend(vote, sp[vote.utxo][2], sp[vote.utxo][1]))
         ELSE addVote(st, vote)
    ELSE st

\* tmpvotes: the copy of votes taken between the passes
Snapshot(st) == SeqOfSet(Range(st.votes))

InitLoad ==
    /\ \E n \in 0..MaxLoadHeight : \E kinds \in [1..n -> LoadKinds] :
        /\ chain = [h \in 1..n |-> LoadBlock(h, kinds[h])]
        /\ ValidChain(chain)
    /\ store = EmptyStore
    /\ last = [op |-> "init", height |-> 0, pre |-> EmptyStore, vs |-> {}, error |-> FALSE]
    /\ \E cores \in 1..MaxCores :
        ld = [LdIdle EXCEPT !.phase = "start", !.cores = cores]
    /\ fx = FxIdle

\* The head of loadGovernanceData: nothing to load, or the workers of pass 1
LoadStart ==
    /\ ld.phase = "start"
    /\ LET blockHeight == Len(chain) IN
       IF blockHeight = 0 \/ blockHeight < governanceBlock
       THEN ld' = [ld EXCEPT !.phase = "done", !.ret = TRUE]
       ELSE ld' = [ld EXCEPT !.phase = "pass1",
                     !.w = [k \in 0..(ld.cores - 1) |->
                              Worker(P1Start(k, ld.cores, blockHeight),
                                     P1End(k, ld.cores, blockHeight))]]
    /\ UNCHANGED <<chain, store, last, fx>>

\* ShutdownRequested() becomes true while the loader runs
RequestShutdown ==
    /\ ld.phase \in {"pass1", "pass2"}
    /\ ~ld.shutdown
    /\ ld' = [ld EXCEPT !.shutdown = TRUE]
    /\ UNCHANGED <<chain, store, last, fx>>

\* The shutdown branch without failed = true
WorkerShutdownSilent(k) ==
    /\ ld.phase \in {"pass1", "pass2"}
    /\ ld.w[k].pc = "loop"
    /\ ld.shutdown
    /\ ld' = [ld EXCEPT !.w[k].pc = "done"]
    /\ UNCHANGED <<chain, store, last, fx>>

\* p1 or p2 at the loop head sees the shutdown request: failed = true, return
WorkerShutdown(k) ==
    /\ ld.phase \in {"pass1", "pass2"}
    /\ ld.w[k].pc = "loop"
    /\ ld.shutdown
    /\ ld' = [ld EXCEPT !.failed = TRUE, !.w[k].pc = "done"]
    /\ UNCHANGED <<chain, store, last, fx>>

\* p1: chain[blockNumber] is null or ReadBlockFromDisk returns false:
\* failed = true, return
P1ReadFail(k) ==
    /\ ld.phase = "pass1"
    /\ ld.w[k].pc = "loop"
    /\ ~ld.shutdown
    /\ ld' = [ld EXCEPT !.failed = TRUE, !.w[k].pc = "done"]
    /\ UNCHANGED <<chain, store, last, fx>>

\* p1: read the block, record its inputs in spentPrevouts, extract its data
P1Read(k) ==
    /\ ld.phase = "pass1"
    /\ ld.w[k].pc = "loop"
    /\ ~ld.shutdown
    /\ LET bn == ld.w[k].i
           d == dataFromBlock(store, chain[bn], TRUE, bn, FALSE)
       IN ld' = [ld EXCEPT !.spentPrevouts = RecordPrevouts(@, chain[bn], bn),
                           !.w[k].pc = "apply", !.w[k].ps = d.ps, !.w[k].vs = d.vs]
    /\ UNCHANGED <<chain, store, last, fx>>

\* p1, processBlock under mu: the proposals, then the votes up to the first
\* vote that is not stored yet
P1Apply(k) ==
    /\ ld.phase = "pass1"
    /\ ld.w[k].pc = "apply"
    /\ LET r == voteLoop(addProposals(store, ld.w[k].ps), ld.w[k].vs) IN
        /\ store' = r.st
        /\ ld' = [ld EXCEPT !.w[k] = AfterVoteLoop(@, r)]
    /\ UNCHANGED <<chain, last, fx>>

\* p1, processBlock after ENTER_CRITICAL_SECTION: the vote is inserted and the
\* loop goes on
P1Relock(k) ==
    /\ ld.phase = "pass1"
    /\ ld.w[k].pc = "relock"
    /\ LET r == voteLoop(addVote(store, ld.w[k].pv), ld.w[k].vs) IN
        /\ store' = r.st
        /\ ld' = [ld EXCEPT !.w[k] = AfterVoteLoop(@, r)]
    /\ UNCHANGED <<chain, last, fx>>

\* join_all after pass 1: return, or take the snapshot and start pass 2
JoinPass1 ==
    /\ ld.phase = "pass1"
    /\ \A k \in DOMAIN ld.w : ld.w[k].pc = "done"
    /\ IF DOMAIN store.votes = {} \/ ld.failed
       THEN ld' = [ld EXCEPT !.phase = "done", !.ret = ~ld.failed]
       ELSE LET tmp == Snapshot(store) IN
            ld' = [ld EXCEPT !.phase = "pass2", !.tmpvotes = tmp,
                     !.w = [k \in 0..(ld.cores - 1) |->
                              Worker(P2Start(k, ld.cores, Len(tmp)),
                                     P2End(k, ld.cores, Len(tmp)))]]
    /\ UNCHANGED <<chain, store, last, fx>>

\* p2: one vote of the snapshot
P2Step(k) ==
    /\ ld.phase = "pass2"
    /\ ld.w[k].pc = "loop"
    /\ ~ld.shutdown
    /\ store' = p2Vote(store, ld.tmpvotes[ld.w[k].i + 1], ld.spentPrevouts)
    /\ ld' = [ld EXCEPT !.w[k].i = @ + 1,
                        !.w[k].pc = LoopHead(ld.w[k].i + 1, ld.w[k].end)]
    /\ UNCHANGED <<chain, last, fx>>

\* join_all after pass 2: return !failed
JoinPass2 ==
    /\ ld.phase = "pass2"
    /\ \A k \in DOMAIN ld.w : ld.w[k].pc = "done"
    /\ ld' = [ld EXCEPT !.phase = "done", !.ret = ~ld.failed]
    /\ UNCHANGED <<chain, store, last, fx>>

\* After a successful load the node runs in live mode: the tip is disconnected
LoadedDisconnect ==
    /\ ld.phase \in {"done", "live"}
    /\ ~ld.failed
    /\ Len(chain) > 0
    /\ LET h == Len(chain) IN
        /\ chain' = SubSeq(chain, 1, h - 1)
        /\ store' = BlockDisconnected(store, chain[h], h)
        /\ last' = [op |-> "disconnect", height |-> h, pre |-> store, vs |-> {},
                    error |-> FALSE]
    /\ ld' = [ld EXCEPT !.phase = "live"]
    /\ UNCHANGED fx

NextLoad ==
    \/ LoadStart
    \/ RequestShutdown
    \/ \E k \in DOMAIN ld.w : WorkerShutdown(k)
    \/ \E k \in DOMAIN ld.w : P1ReadFail(k)
    \/ \E k \in DOMAIN ld.w : P1Read(k)
    \/ \E k \in DOMAIN ld.w : P1Apply(k)
    \/ \E k \in DOMAIN ld.w : P1Relock(k)
    \/ JoinPass1
    \/ \E k \in DOMAIN ld.w : P2Step(k)
    \/ JoinPass2
    \/ LoadedDisconnect

SpecLoad == InitLoad /\ [][NextLoad]_vars

\* The load with one worker (nthreads = 1): p1 over every height, then p2
\* over every vote of the snapshot
RECURSIVE p1Blocks(_, _, _, _)
p1Blocks(st, ch, bn, end) ==
    IF bn >= end THEN st
    ELSE p1Blocks(processBlock(st, ch[bn], bn, FALSE, {}), ch, bn + 1, end)

RECURSIVE p1Prevouts(_, _, _, _)
p1Prevouts(sp, ch, bn, end) ==
    IF bn >= end THEN sp
    ELSE p1Prevouts(RecordPrevouts(sp, ch[bn], bn), ch, bn + 1, end)

RECURSIVE p2Votes(_, _, _, _, _)
p2Votes(st, tmp, i, end, sp) ==
    IF i >= end THEN st
    ELSE p2Votes(p2Vote(st, tmp[i + 1], sp), tmp, i + 1, end, sp)

LoadOneWorker(ch) ==
    IF Len(ch) = 0 \/ Len(ch) < governanceBlock THEN EmptyStore
    ELSE LET st1 == p1Blocks(EmptyStore, ch, P1Start(0, 1, Len(ch)), P1End(0, 1, Len(ch)))
             sp == p1Prevouts(EmptyMap, ch, P1Start(0, 1, Len(ch)), P1End(0, 1, Len(ch)))
             tmp == Snapshot(st1)
         IN IF DOMAIN st1.votes = {} THEN st1
            ELSE p2Votes(st1, tmp, P2Start(0, 1, Len(tmp)), P2End(0, 1, Len(tmp)), sp)

\* ------------------------------------------------------------------------
\* getTally on a vector of votes
\* ------------------------------------------------------------------------
PB == ProposalOut(2, superblockPeriod, 4, 2)

\* The vote of kind c by utxo u on proposal p, carried by output u of
\* transaction txid of a block at height h
VoteBy(p, c, u, txid, h) ==
    LET out == VoteOut(p, c, u, txid) IN
    ParseVote(out, Tx(txid, {FeeIn(txid)}, <<out>>), u, 1, TRUE, h)

TallyPool ==
    {VoteBy(PA, c, u, txid, 2) : c \in {YES, NO, ABSTAIN}, u \in {1, 2, 3}, txid \in {1, 2}}
    \cup {VoteBy(PB, YES, u, 1, 2) : u \in {1, 2, 3}}

InitTally ==
    /\ chain = <<>>
    /\ store = EmptyStore
    /\ last = [op |-> "init", height |-> 0, pre |-> EmptyStore, vs |-> {}, error |-> FALSE]
    /\ ld = LdIdle
    /\ \E n \in 0..MaxTallyVotes : \E votes \in [1..n -> TallyPool] :
        fx = [op |-> "getTally", done |-> FALSE, proposal |-> ProposalHash(PA),
              votes |-> votes,
              out |-> [counted |-> {}, tallies |-> <<>>, tally |-> ZeroTally]]

Tally ==
    /\ fx.op = "getTally"
    /\ ~fx.done
    /\ fx' = [fx EXCEPT !.done = TRUE, !.out = TallyRun(fx.proposal, fx.votes)]
    /\ UNCHANGED <<chain, store, last, ld>>

NextTally == Tally

SpecTally == InitTally /\ [][NextTally]_vars

\* ------------------------------------------------------------------------
\* getSuperblockResults on a store holding two proposals and their votes
\* ------------------------------------------------------------------------
\* uniqueAmount: the amount of the first vote of each utxo, in vector order
RECURSIVE UniqueAmount(_, _, _)
UniqueAmount(vs, i, unique) ==
    IF i > Len(vs) THEN 0
    ELSE IF vs[i].utxo \in unique THEN UniqueAmount(vs, i + 1, unique)
    ELSE vs[i].amount + UniqueAmount(vs, i + 1, unique \cup {vs[i].utxo})

\* ResultErased with the 60% bound exclusive
ResultErasedStrict(tally, uniqueVotes) ==
    LET total == tally.yes + tally.no + tally.abstain
        yaynay == tally.yes + tally.no
    IN \/ yaynay = 0
       \/ 5 * tally.yes <= 3 * yaynay
       \/ 4 * total < uniqueVotes
       \/ tally.yes <= 0

\* The test that erases a result. The quotient yes / yaynay and the product
\* uniqueVotes * 0.25 are doubles of small integers: yes / yaynay < 0.6 exactly
\* when 5 * yes < 3 * yaynay, the quotient 3.0 / 5.0 being the double 0.6.
ResultErased(tally, uniqueVotes) ==
    LET total == tally.yes + tally.no + tally.abstain
        yaynay == tally.yes + tally.no
    IN \/ yaynay = 0
       \/ 5 * tally.yes < 3 * yaynay
       \/ 4 * total < uniqueVotes
       \/ tally.yes <= 0

\* std::map<Proposal, Tally>: a function from the proposals that are kept
getSuperblockResults(st, superblock) ==
    IF ~isSuperblock(superblock) THEN EmptyMap
    ELSE LET d == getProposalsForSuperblock(st, superblock)
             uniqueVotes == TruncDiv(UniqueAmount(d.vs, 1, {}), voteBalance)
             r == [p \in d.ps |-> getTally(ProposalHash(p), d.vs)]
         IN [p \in {q \in d.ps : ~ResultErased(r[q], uniqueVotes)} |-> r[p]]

\* The utxos that vote on each proposal in the stores that are drawn
ResultsVoters(p) == IF p = PA THEN {1, 2, 3, 4} ELSE {1, 2}
ResultsBallots ==
    UNION {[S -> {NO, YES, ABSTAIN}] :
             S \in SUBSET {<<p, u>> : p \in {PA, PB}, u \in {1, 2, 3, 4}}
                   \cap SUBSET UNION {{<<p, u>> : u \in ResultsVoters(p)} : p \in {PA, PB}}}

RECURSIVE addVotes(_, _)
addVotes(st, vs) ==
    IF vs = {} THEN st
    ELSE LET v == CHOOSE x \in vs : TRUE IN addVotes(addVote(st, v), vs \ {v})

\* The store after the proposals ps were recorded at height 1 and the ballots
\* b at height 2, the votes of the utxos in spentUtxos marked spent at height 3
BallotStore(ps, b, spentUtxos) ==
    LET st0 == addProposals(EmptyStore, {ParseProposal(q, TRUE, 1) : q \in ps})
        cast == {VoteBy(k[1], b[k], k[2], k[2], 2) : k \in DOMAIN b}
        mark(v) == IF v.utxo \in spentUtxos THEN VoteSpend(v, 3, TxId(3, 2)) ELSE v
    IN addVotes(st0, {mark(v) : v \in cast})

InitResults ==
    /\ chain = <<>>
    /\ \E b \in ResultsBallots : \E spentUtxos \in SUBSET {3} :
        store = BallotStore({PA, PB}, b, spentUtxos)
    /\ last = [op |-> "init", height |-> 0, pre |-> EmptyStore, vs |-> {}, error |-> FALSE]
    /\ ld = LdIdle
    /\ \E sb \in {superblockPeriod - 1, superblockPeriod} :
        fx = [op |-> "getSuperblockResults", done |-> FALSE, superblock |-> sb, out |-> EmptyMap]

Results ==
    /\ fx.op = "getSuperblockResults"
    /\ ~fx.done
    /\ fx' = [fx EXCEPT !.done = TRUE, !.out = getSuperblockResults(store, fx.superblock)]
    /\ UNCHANGED <<chain, store, last, ld>>

NextResults == Results

SpecResults == InitResults /\ [][NextResults]_vars

\* ------------------------------------------------------------------------
\* getSuperblockPayees on a result set
\* ------------------------------------------------------------------------
\* Tally::netyes
netyes(t) == t.yes - t.no

\* The comparator of the sort, on pairs [p |-> proposal, t |-> tally]
PayeeLess(a, b) ==
    IF netyes(a.t) = netyes(b.t) /\ a.t.yes = b.t.yes
    THEN a.p.blockNumber < b.p.blockNumber
    ELSE IF netyes(a.t) = netyes(b.t) THEN a.t.yes > b.t.yes
    ELSE netyes(a.t) > netyes(b.t)

\* The vectors std::sort may leave: the permutations of the results in which
\* no element is less than an element before it; the order of elements that
\* the comparator does not separate is unspecified
SortedProps(results) ==
    LET pairs == {[p |-> q, t |-> results[q]] : q \in DOMAIN results}
        n == Cardinality(pairs)
    IN {s \in [1..n -> pairs] :
          /\ \A i \in 1..n : \A j \in 1..n : (i # j) => s[i] # s[j]
          /\ \A i \in 1..n : \A j \in 1..n : (i < j) => ~PayeeLess(s[j], s[i])}

\* GetScriptForDestination(DecodeDestination(address))
ScriptFor(address) == <<"pay", address>>

\* The fill loop that ends at the first proposal that does not fit
RECURSIVE FillPayeesStop(_, _, _)
FillPayeesStop(props, i, superblockTotal) ==
    IF i > Len(props) THEN <<>>
    ELSE IF superblockTotal - props[i].p.amount >= 0
    THEN <<[nValue |-> props[i].p.amount, scriptPubKey |-> ScriptFor(props[i].p.address)]>>
         \o FillPayeesStop(props, i + 1, superblockTotal - props[i].p.amount)
    ELSE <<>>

\* The fill loop that emits every proposal, whatever is left of the budget
FillPayeesAll(props, i, superblockTotal) ==
    [k \in 1..Len(props) |->
        [nValue |-> props[k].p.amount, scriptPubKey |-> ScriptFor(props[k].p.address)]]

\* The do-while loop: props[0] is emitted if it fits, then erased
RECURSIVE FillPayees(_, _, _)
FillPayees(props, i, superblockTotal) ==
    IF i > Len(props) THEN <<>>
    ELSE IF superblockTotal - props[i].p.amount >= 0
    THEN <<[nValue |-> props[i].p.amount, scriptPubKey |-> ScriptFor(props[i].p.address)]>>
         \o FillPayees(props, i + 1, superblockTotal - props[i].p.amount)
    ELSE FillPayees(props, i + 1, superblockTotal)

\* getSuperblockPayees, props being the vector after the sort
getSuperblockPayees(superblock, props) ==
    IF Len(props) = 0 THEN <<>>
    ELSE FillPayees(props, 1, Min(proposalMaxAmount, GetBlockSubsidy(superblock)))

\* The result sets that are drawn: proposals 1, 2, 3 asking 4, 3, 2, recorded
\* at height 1 or 2, with tallies that pass
PayeeProposal(name, bn) ==
    ParseProposal(ProposalOut(name, superblockPeriod, 5 - name, name), TRUE, bn)
PayeeTally(yes, no) ==
    [cyes |-> yes * voteBalance, cno |-> no * voteBalance, cabstain |-> 0,
     yes |-> yes, no |-> no, abstain |-> 0]
PayeeTallies == {PayeeTally(2, 0), PayeeTally(3, 1), PayeeTally(3, 0)}
PayeeResults ==
    UNION {{r \in [{PayeeProposal(name, bns[name]) : name \in names} -> PayeeTallies] : TRUE} :
             <<names, bns>> \in (SUBSET {1, 2, 3}) \X [{1, 2, 3} -> {1, 2}]}

InitPayees ==
    /\ chain = <<>>
    /\ store = EmptyStore
    /\ last = [op |-> "init", height |-> 0, pre |-> EmptyStore, vs |-> {}, error |-> FALSE]
    /\ ld = LdIdle
    /\ \E results \in PayeeResults :
        fx = [op |-> "getSuperblockPayees", done |-> FALSE, superblock |-> superblockPeriod,
              results |-> results, props |-> <<>>, out |-> <<>>]

Payees ==
    /\ fx.op = "getSuperblockPayees"
    /\ ~fx.done
    /\ \E props \in SortedProps(fx.results) :
        fx' = [fx EXCEPT !.done = TRUE, !.props = props,
                         !.out = getSuperblockPayees(fx.superblock, props)]
    /\ UNCHANGED <<chain, store, last, ld>>

NextPayees == Payees

SpecPayees == InitPayees /\ [][NextPayees]_vars

\* ------------------------------------------------------------------------
\* isValidSuperblock on a block and a store
\* ------------------------------------------------------------------------
\* The lambda erasing every payee equal to the vout, not only the one found
FindPayeeAll(vout, payees, i) ==
    [found |-> \E k \in 1..Len(payees) : payees[k] = vout,
     payees |-> SelectSeq(payees, LAMBDA x : x # vout)]

\* The lambda of remove_if for one vout: the payees are searched from the end,
\* the payee found is erased; [found, payees]
RECURSIVE FindPayee(_, _, _)
FindPayee(vout, payees, i) ==
    IF i < 1 THEN [found |-> FALSE, payees |-> payees]
    ELSE IF vout = payees[i]
    THEN [found |-> TRUE,
          payees |-> SubSeq(payees, 1, i - 1) \o SubSeq(payees, i + 1, Len(payees))]
    ELSE FindPayee(vout, payees, i - 1)

\* vouts.erase(remove_if(...)): [vouts, payees] after the vouts from k on
RECURSIVE MatchVouts(_, _, _, _)
MatchVouts(vouts, k, kept, payees) ==
    IF k > Len(vouts) THEN [vouts |-> kept, payees |-> payees]
    ELSE LET f == FindPayee(vouts[k], payees, Len(payees)) IN
         IF f.found THEN MatchVouts(vouts, k + 1, kept, f.payees)
         ELSE MatchVouts(vouts, k + 1, Append(kept, vouts[k]), f.payees)

RECURSIVE SumValues(_, _)
SumValues(payees, i) ==
    IF i > Len(payees) THEN 0 ELSE payees[i].nValue + SumValues(payees, i + 1)

\* isValidSuperblock without the proof-of-stake test
isValidSuperblockAnyBlock(st, block, blockHeight, props) ==
    IF ~isSuperblock(blockHeight) THEN [ok |-> FALSE, payments |-> 0, payees |-> <<>>]
    ELSE IF DOMAIN getSuperblockResults(st, blockHeight) = {}
    THEN [ok |-> TRUE, payments |-> 0, payees |-> <<>>]
    ELSE LET payees == getSuperblockPayees(blockHeight, props)
             vouts == block.vtx[2].vout
             m == MatchVouts(vouts, 1, <<>>, payees)
         IN IF Len(payees) = 0 THEN [ok |-> FALSE, payments |-> 0, payees |-> payees]
            ELSE IF Len(vouts) - Len(payees) > 2
            THEN [ok |-> FALSE, payments |-> SumValues(payees, 1), payees |-> payees]
            ELSE [ok |-> Len(m.vouts) <= 2 /\ Len(m.payees) = 0,
                  payments |-> SumValues(payees, 1), payees |-> payees]

\* isValidSuperblock, props being the vector the sort of getSuperblockPayees
\* leaves; [ok, payments, payees]
isValidSuperblock(st, block, blockHeight, props) ==
    IF ~isSuperblock(blockHeight) THEN [ok |-> FALSE, payments |-> 0, payees |-> <<>>]
    ELSE IF ~block.pos THEN [ok |-> FALSE, payments |-> 0, payees |-> <<>>]
    ELSE IF DOMAIN getSuperblockResults(st, blockHeight) = {}
    THEN [ok |-> TRUE, payments |-> 0, payees |-> <<>>]
    ELSE LET payees == getSuperblockPayees(blockHeight, props)
             vouts == block.vtx[2].vout
             m == MatchVouts(vouts, 1, <<>>, payees)
         IN IF Len(payees) = 0 THEN [ok |-> FALSE, payments |-> 0, payees |-> payees]
            ELSE IF Len(vouts) - Len(payees) > 2
            THEN [ok |-> FALSE, payments |-> SumValues(payees, 1), payees |-> payees]
            ELSE [ok |-> Len(m.vouts) <= 2 /\ Len(m.payees) = 0,
                  payments |-> SumValues(payees, 1), payees |-> payees]

\* The stores that are drawn: PA, PD (same amount and address as PA) and PE,
\* each with one YES vote or none
PD == ProposalOut(4, superblockPeriod, 3, 1)
PE == ProposalOut(5, superblockPeriod, 2, 2)
SuperblockBallots ==
    UNION {[S -> {YES}] : S \in SUBSET {<<PA, 1>>, <<PD, 4>>, <<PE, 2>>}}

\* The outputs a coinstake is made of: the payees and the staker's own output
StakeOutputs ==
    {[nValue |-> 3, scriptPubKey |-> ScriptFor(1)],
     [nValue |-> 2, scriptPubKey |-> ScriptFor(2)],
     [nValue |-> 1, scriptPubKey |-> ScriptFor(9)]}

StakeBlock(pos, vouts) ==
    [time |-> 1, pos |-> pos, vtx |-> <<Tx(TxId(superblockPeriod, 0), {}, <<>>),
                                        Tx(TxId(superblockPeriod, 1), {}, vouts)>>]

InitSuperblock ==
    /\ chain = <<>>
    /\ \E b \in SuperblockBallots : store = BallotStore({PA, PD, PE}, b, {})
    /\ last = [op |-> "init", height |-> 0, pre |-> EmptyStore, vs |-> {}, error |-> FALSE]
    /\ ld = LdIdle
    /\ \E pos \in BOOLEAN : \E n \in 0..MaxVouts : \E vouts \in [1..n -> StakeOutputs] :
       \E h \in {superblockPeriod - 1, superblockPeriod} :
        fx = [op |-> "isValidSuperblock", done |-> FALSE, block |-> StakeBlock(pos, vouts),
              blockHeight |-> h, out |-> [ok |-> FALSE, payments |-> 0, payees |-> <<>>]]

ValidateSuperblock ==
    /\ fx.op = "isValidSuperblock"
    /\ ~fx.done
    /\ \E props \in SortedProps(getSuperblockResults(store, fx.blockHeight)) :
        fx' = [fx EXCEPT !.done = TRUE,
                         !.out = isValidSuperblock(store, fx.block, fx.blockHeight, props)]
    /\ UNCHANGED <<chain, store, last, ld>>

NextSuperblockCall == ValidateSuperblock

SpecSuperblock == InitSuperblock /\ [][NextSuperblockCall]_vars

\* ------------------------------------------------------------------------
\* Live mode on blocks whose outputs may carry a truncated payload
\* ------------------------------------------------------------------------
\* A payload cut after its two header bytes
TruncatedOut(version, type) == [version |-> version, type |-> type, complete |-> FALSE]

\* The outputs a transaction of a block at height h draws from
ParseOutputs(h) ==
    {PA, VoteOut(PA, YES, 1, TxId(h, 1)), VoteOut(PA, NO, 1, TxId(h, 1)),
     TruncatedOut(NETWORK_VERSION, PROPOSAL), TruncatedOut(NETWORK_VERSION, VOTE),
     TruncatedOut(NETWORK_VERSION + 1, PROPOSAL)}

ParseBlocks(h) ==
    {[time |-> 1, vtx |-> <<Tx(TxId(h, 1), {FeeIn(TxId(h, 1))}, vout)>>] :
        vout \in UNION {[1..n -> ParseOutputs(h)] : n \in 1..2}}

ConnectParsed ==
    /\ Len(chain) < MaxParseHeight
    /\ \E block \in ParseBlocks(Len(chain) + 1) : ConnectBlock(block)

NextParse == ConnectParsed \/ Disconnect

SpecParse == Init /\ [][NextParse]_vars

\* ------------------------------------------------------------------------
\* spendVote and unspendVote called on the votes of a store
\* ------------------------------------------------------------------------
\* The store after the blocks of ch were connected in live mode
RECURSIVE LiveStore(_, _)
LiveStore(ch, h) ==
    IF h = 0 THEN EmptyStore
    ELSE processBlock(LiveStore(ch, h - 1), ch[h], h, TRUE, SpentUpTo(ch, h))

\* Chains: proposal PA, a vote on it with utxo 1, then nothing or the spend of utxo 1
SpendChains ==
    LET b1 == [time |-> 1, vtx |-> <<Tx(TxId(1, 1), {FeeIn(TxId(1, 1))}, <<PA>>)>>]
        b2 == [time |-> 1, vtx |-> <<Tx(TxId(2, 3), {FeeIn(TxId(2, 3))},
                                        <<VoteOut(PA, YES, 1, TxId(2, 3))>>)>>]
        b3 == [time |-> 1, vtx |-> <<Tx(TxId(3, 2), {1}, <<>>)>>]
    IN {<<b1, b2>>, <<b1, b2, b3>>}

\* The block numbers and transaction hashes handed to the calls
SpendBlocks == {3, superblockPeriod + 1}
SpendHashes == {TxId(3, 2), TxId(3, 4)}

\* No call made yet
NoCall == [op |-> "none", how |-> "none", hash |-> <<>>, block |-> 0, txhash |-> NullHash,
           pre |-> EmptyStore, vote |-> NullVote]

InitSpend ==
    /\ chain \in SpendChains
    /\ store = LiveStore(chain, Len(chain))
    /\ last = [op |-> "init", height |-> 0, pre |-> EmptyStore, vs |-> {}, error |-> FALSE]
    /\ ld = LdIdle
    /\ fx = NoCall @@ [calls |-> 0, prev |-> NoCall]

\* The pointers <<superblock, hash>> to the votes of sbvotes
SBVotePointers(st) == UNION {{<<sb, h>> : h \in DOMAIN st.sbvotes[sb]} : sb \in DOMAIN st.sbvotes}

\* The vote object a Vote & call is made with: the one of the call before when
\* the caller goes on with its copy, a copy of votes[hash] otherwise
CallerVote(h) ==
    IF fx.how = "copy" /\ fx.hash = h THEN fx.vote ELSE store.votes[h]

\* One call of op (spendVote or unspendVote): through the pointer overload
\* ("ptr"), or through the reference overload with a reference to votes[hash]
\* ("alias") or with the caller's own copy of the vote ("copy")
Call(op, how, sb, h, block, txhash) ==
    LET vote == IF how = "alias" THEN store.votes[h] ELSE CallerVote(h)
        r == IF how = "ptr"
             THEN [st |-> IF op = "spendVote" THEN spendVote(store, sb, h, block, txhash)
                          ELSE unspendVote(store, sb, h, block, txhash),
                   vote |-> NullVote]
             ELSE IF op = "spendVote" THEN spendVoteRef(store, vote, block, txhash)
             ELSE unspendVoteRef(store, vote, block, txhash)
        \* what the call writes to its vote is written to votes[hash] when the
        \* vote is a reference to it
        st2 == IF how = "alias" THEN [r.st EXCEPT !.votes[h] = r.vote] ELSE r.st
    IN /\ (how # "ptr") => h \in DOMAIN store.votes
       /\ store' = st2
       /\ fx' = [op |-> op, how |-> how, hash |-> h, block |-> block, txhash |-> txhash,
                 pre |-> store, vote |-> IF how = "copy" THEN r.vote ELSE NullVote,
                 calls |-> fx.calls + 1,
                 prev |-> [op |-> fx.op, how |-> fx.how, hash |-> fx.hash, block |-> fx.block,
                           txhash |-> fx.txhash, pre |-> fx.pre, vote |-> fx.vote]]
       /\ UNCHANGED <<chain, last, ld>>

SpendCall ==
    /\ fx.calls < MaxCalls
    /\ \E how \in {"ptr", "alias", "copy"} : \E ptr \in SBVotePointers(store) :
       \E block \in SpendBlocks : \E txhash \in SpendHashes :
           Call("spendVote", how, ptr[1], ptr[2], block, txhash)

UnspendCall ==
    /\ fx.calls < MaxCalls
    /\ \E how \in {"ptr", "alias", "copy"} : \E ptr \in SBVotePointers(store) :
       \E block \in SpendBlocks : \E txhash \in SpendHashes :
           Call("unspendVote", how, ptr[1], ptr[2], block, txhash)

NextSpend == SpendCall \/ UnspendCall

SpecSpend == InitSpend /\ [][NextSpend]_vars

\* ------------------------------------------------------------------------
\* utxoInVoteCutoff called on a store
\* ------------------------------------------------------------------------
CutoffBallots == UNION {[S -> {YES}] : S \in SUBSET {<<PA, 1>>, <<PA, 3>>, <<PB, 2>>}}

InitCutoff ==
    /\ chain = <<>>
    /\ \E b \in CutoffBallots : \E spentUtxos \in SUBSET {3} :
        store = BallotStore({PA, PB}, b, spentUtxos)
    /\ last = [op |-> "init", height |-> 0, pre |-> EmptyStore, vs |-> {}, error |-> FALSE]
    /\ ld = LdIdle
    /\ \E utxo \in {1, 2, 3, 4} : \E tipHeight \in 0..(2 * superblockPeriod) :
       \E height \in {superblockPeriod - 1, superblockPeriod} :
        fx = [op |-> "utxoInVoteCutoff", done |-> FALSE, utxo |-> utxo,
              tipHeight |-> tipHeight, height |-> height, out |-> FALSE]

CutoffCall ==
    /\ fx.op = "utxoInVoteCutoff"
    /\ ~fx.done
    /\ fx' = [fx EXCEPT !.done = TRUE,
                        !.out = utxoInVoteCutoff(store, fx.utxo, fx.tipHeight, fx.height)]
    /\ UNCHANGED <<chain, store, last, ld>>

NextCutoff == CutoffCall

SpecCutoff == InitCutoff /\ [][NextCutoff]_vars

\* ========================================================================
\* Claims
\* ========================================================================

\* C1 (as stated): once every connected block has been disconnected again, the
\* store is identical to the initial empty store.
C1_IdenticalToEmpty == (chain = <<>>) => (store = EmptyStore)

\* C1 (amended): once every connected block has been disconnected again,
\* proposals and votes are empty and sbvotes holds no vote; the superblock
\* buckets that addVote created stay behind, empty.
C1_ApplyUndo ==
    (chain = <<>>) =>
        /\ store.proposals = EmptyMap
        /\ store.votes = EmptyMap
        /\ \A sb \in DOMAIN store.sbvotes : store.sbvotes[sb] = EmptyMap

\* A chain that stored proposals and votes has been disconnected down to nothing
C1_Witness ==
    /\ chain = <<>>
    /\ last.op = "disconnect"
    /\ DOMAIN last.pre.proposals # {}
    /\ DOMAIN store.sbvotes # {}

\* C4: a vote that the disconnected block had marked spent (spentBlock = its
\* height) and that is still stored is unspent again in votes and in sbvotes.
C4_UnspentAfterDisconnect ==
    (last.op = "disconnect") =>
        \A h \in DOMAIN last.pre.votes :
            (/\ last.pre.votes[h].spentBlock = last.height
             /\ h \in DOMAIN store.votes)
            => /\ ~VoteSpent(store.votes[h])
               /\ \A sb \in DOMAIN store.sbvotes :
                    h \in DOMAIN store.sbvotes[sb] => ~VoteSpent(store.sbvotes[sb][h])

\* The votes of the block just connected that change the choice of a vote
\* recorded at a lower height for the same proposal and utxo
ChangedVotes ==
    IF last.op # "connect" THEN {}
    ELSE {v \in last.vs :
            /\ VoteHash(v) \in DOMAIN last.pre.votes
            /\ last.pre.votes[VoteHash(v)].vote # v.vote
            /\ last.pre.votes[VoteHash(v)].blockNumber < last.height}

\* The tally of v's proposal counts v's utxo under v's choice and under no other
CountedOnlyAs(st, v) ==
    LET sb == st.proposals[v.proposal].superblock
        vs == getProposalsForSuperblock(st, sb).vs
        others == SelectSeq(vs, LAMBDA w : VoteHash(w) # VoteHash(v))
        t == getTally(v.proposal, vs)
        t0 == getTally(v.proposal, others)
        share == IF VoteSpent(st.votes[VoteHash(v)]) THEN 0 ELSE v.amount
    IN /\ t.cyes = t0.cyes + (IF v.vote = YES THEN share ELSE 0)
       /\ t.cno = t0.cno + (IF v.vote = NO THEN share ELSE 0)
       /\ t.cabstain = t0.cabstain + (IF v.vote = ABSTAIN THEN share ELSE 0)

LaterChoiceStored(v) ==
    /\ Cardinality({h \in DOMAIN store.votes :
                      store.votes[h].proposal = v.proposal /\ store.votes[h].utxo = v.utxo}) = 1
    /\ store.votes[VoteHash(v)].vote = v.vote
    /\ CountedOnlyAs(store, v)

\* C5 (as stated): after a change of vote in a later block, votes holds one
\* record for (P, u), its choice is that of the later block, and the tally
\* counts the utxo under that choice only.
C5_LaterBlockWins == \A v \in ChangedVotes : LaterChoiceStored(v)

\* C5 (amended): the same, provided the later block's time is strictly greater
\* than the time of the stored vote or the later vote's sig-hash is greater.
C5_ChangeOfVote ==
    \A v \in ChangedVotes :
        (\/ v.time > last.pre.votes[VoteHash(v)].time
         \/ SigHash(v) > SigHash(last.pre.votes[VoteHash(v)]))
        => LaterChoiceStored(v)

\* A later block with a greater time has replaced the choice of a stored vote
C5_Witness ==
    \E v \in ChangedVotes :
        /\ v.time > last.pre.votes[VoteHash(v)].time
        /\ store.votes[VoteHash(v)].vote = v.vote
        /\ store.votes[VoteHash(v)].blockNumber = last.height

\* votes and sbvotes hold the same records: every vote of votes whose proposal
\* is stored is in the bucket of that proposal's superblock, and every vote of
\* a bucket is in votes, with equal records
StoreInSync(st) ==
    /\ \A h \in DOMAIN st.votes :
        st.votes[h].proposal \in DOMAIN st.proposals =>
            LET sb == st.proposals[st.votes[h].proposal].superblock IN
            /\ sb \in DOMAIN st.sbvotes
            /\ h \in DOMAIN st.sbvotes[sb]
            /\ st.sbvotes[sb][h] = st.votes[h]
    /\ \A sb \in DOMAIN st.sbvotes : \A h \in DOMAIN st.sbvotes[sb] :
        /\ h \in DOMAIN st.votes
        /\ st.votes[h] = st.sbvotes[sb][h]

\* C2: a load that returned success left the store that the load with one
\* worker builds from the same chain.
C2_LoadDeterminism ==
    (ld.phase = "done" /\ ~ld.failed) => store = LoadOneWorker(chain)

\* With cores = 1 the workers of the loader build the store of LoadOneWorker
OneWorkerAgrees ==
    (ld.phase = "done" /\ ~ld.failed /\ ld.cores = 1) => store = LoadOneWorker(chain)

\* C3: in every reachable state votes and sbvotes hold the same records.
C3_StoreInSync == StoreInSync(store)

\* The votes of the vector that match the proposal, and their vote-ids
MatchingVotes == {fx.votes[i] : i \in {j \in 1..Len(fx.votes) : fx.votes[j].proposal = fx.proposal}}
MatchingIds == {VoteHash(v) : v \in MatchingVotes}

RECURSIVE SumUtxoAmounts(_)
SumUtxoAmounts(ids) ==
    IF ids = {} THEN 0
    ELSE LET id == CHOOSE x \in ids : TRUE IN UtxoAmount(id[2]) + SumUtxoAmounts(ids \ {id})

\* C10: getTally counts every distinct matching vote once and nothing else:
\* the counted set holds one vote per matching vote-id and only matching
\* votes, each amount sum is the sum over the counted votes of that kind, and
\* cyes + cno + cabstain is the sum of the amounts of the distinct matching votes.
C10_CountedOnce ==
    (fx.op = "getTally" /\ fx.done) =>
        /\ fx.out.counted \subseteq MatchingVotes
        /\ \A id \in MatchingIds :
            Cardinality({c \in fx.out.counted : VoteHash(c) = id}) = 1
        /\ fx.out.tally.cyes = SumAmount(fx.out.counted, YES)
        /\ fx.out.tally.cno = SumAmount(fx.out.counted, NO)
        /\ fx.out.tally.cabstain = SumAmount(fx.out.counted, ABSTAIN)
        /\ fx.out.tally.cyes + fx.out.tally.cno + fx.out.tally.cabstain
             = SumUtxoAmounts(MatchingIds)

\* A tally over two transactions whose votes share a destination, with a vote
\* for another proposal in the vector
C10_Witness ==
    /\ fx.op = "getTally" /\ fx.done
    /\ \E v \in MatchingVotes : \E w \in MatchingVotes :
        /\ v.outpoint[1] # w.outpoint[1]
        /\ v.pubkey = w.pubkey
        /\ VoteHash(v) # VoteHash(w)
    /\ \E i \in 1..Len(fx.votes) : fx.votes[i].proposal # fx.proposal
    /\ Cardinality(fx.out.counted) = 2

\* The votes gathered for the superblock of the call: the votes of its
\* proposals that are not spent
GatheredVotes == getProposalsForSuperblock(store, fx.superblock).vs

RECURSIVE SumOfUtxos(_)
SumOfUtxos(us) ==
    IF us = {} THEN 0
    ELSE LET u == CHOOSE x \in us : TRUE IN UtxoAmount(u) + SumOfUtxos(us \ {u})

\* uniqueVotes: the amounts of the gathered votes, once per distinct utxo,
\* integer-divided by voteBalance
UniqueVotes ==
    SumOfUtxos({GatheredVotes[i].utxo : i \in 1..Len(GatheredVotes)}) \div voteBalance

\* The four conditions on a tally
FourConditions(t) ==
    /\ t.yes + t.no > 0
    /\ 100 * t.yes >= 60 * (t.yes + t.no)
    /\ 100 * (t.yes + t.no + t.abstain) >= 25 * UniqueVotes
    /\ t.yes > 0

\* C7: getSuperblockResults(h) holds a proposal targeting superblock h, with
\* its tally, iff the tally satisfies yes + no > 0, yes / (yes + no) >= 0.60
\* (inclusive), yes + no + abstain >= 0.25 x uniqueVotes and yes > 0; it holds
\* nothing else.
C7_FourConditions ==
    (fx.op = "getSuperblockResults" /\ fx.done /\ isSuperblock(fx.superblock)) =>
        /\ \A p \in Range(store.proposals) :
            p.superblock = fx.superblock =>
                LET t == getTally(ProposalHash(p), GatheredVotes) IN
                /\ (p \in DOMAIN fx.out) <=> FourConditions(t)
                /\ (p \in DOMAIN fx.out) => fx.out[p] = t
        /\ \A p \in DOMAIN fx.out : p \in Range(store.proposals) /\ p.superblock = fx.superblock

\* A call whose result keeps a proposal with exactly 60% yes and drops a
\* proposal that has yes votes and too little participation
C7_Witness ==
    /\ fx.op = "getSuperblockResults" /\ fx.done /\ isSuperblock(fx.superblock)
    /\ \E p \in DOMAIN fx.out : 5 * fx.out[p].yes = 3 * (fx.out[p].yes + fx.out[p].no)
    /\ \E p \in Range(store.proposals) :
        /\ p \notin DOMAIN fx.out
        /\ getTally(ProposalHash(p), GatheredVotes).yes > 0
        /\ getTally(ProposalHash(p), GatheredVotes).no = 0

\* The budget left when the i-th proposal of the visiting order is reached
RECURSIVE Remaining(_)
Remaining(i) ==
    IF i = 1 THEN Min(proposalMaxAmount, GetBlockSubsidy(fx.superblock))
    ELSE LET r == Remaining(i - 1) IN
         IF fx.props[i - 1].p.amount <= r THEN r - fx.props[i - 1].p.amount ELSE r

\* The positions of the visiting order whose proposal fits the budget left
Emitted == {i \in 1..Len(fx.props) : fx.props[i].p.amount <= Remaining(i)}

\* The visiting order is by netYes descending, yes descending, blockNumber ascending
VisitedInOrder ==
    \A i \in 1..Len(fx.props) : \A j \in 1..Len(fx.props) :
        (i < j) =>
            LET a == fx.props[i]
                b == fx.props[j]
            IN \/ a.t.yes - a.t.no > b.t.yes - b.t.no
               \/ a.t.yes - a.t.no = b.t.yes - b.t.no /\ a.t.yes > b.t.yes
               \/ /\ a.t.yes - a.t.no = b.t.yes - b.t.no
                  /\ a.t.yes = b.t.yes
                  /\ a.p.blockNumber <= b.p.blockNumber

C9_PayeesDeterministic ==
    (fx.op = "getSuperblockPayees" /\ fx.done) =>
        \A props \in SortedProps(fx.results) :
            getSuperblockPayees(fx.superblock, props) = fx.out

\* The outputs of the second transaction of the block of the call
BlockVouts == fx.block.vtx[2].vout

\* Every expected payee is matched by an output of its own with the same
\* (value, script) pair
PayeesMatched ==
    \E f \in [1..Len(fx.out.payees) -> 1..Len(BlockVouts)] :
        /\ \A i \in DOMAIN f : \A j \in DOMAIN f : (i # j) => f[i] # f[j]
        /\ \A i \in DOMAIN f : BlockVouts[f[i]] = fx.out.payees[i]

\* C6: for a proof-of-stake block at a superblock height with a non-empty
\* expected payee list, isValidSuperblock returns true iff every expected
\* payee is matched by a distinct output of the second transaction and at most
\* 2 outputs remain unmatched.
C6_ValidIffMatched ==
    (/\ fx.op = "isValidSuperblock" /\ fx.done
     /\ isSuperblock(fx.blockHeight) /\ fx.block.pos
     /\ Len(fx.out.payees) > 0)
    => (fx.out.ok <=> (PayeesMatched /\ Len(BlockVouts) - Len(fx.out.payees) <= 2))

\* A valid superblock paying two equal payees with two outputs, two more
\* outputs left unmatched
C6_Witness ==
    /\ fx.op = "isValidSuperblock" /\ fx.done
    /\ fx.out.ok
    /\ Len(fx.out.payees) = 2
    /\ fx.out.payees[1] = fx.out.payees[2]
    /\ Len(BlockVouts) = 4

RECURSIVE SumField(_, _, _)
SumField(tallies, i, f) ==
    IF i > Len(tallies) THEN 0 ELSE tallies[i][f] + SumField(tallies, i + 1, f)

\* C11 (as stated): every count of the Tally returned by getTally is the
\* corresponding amount integer-divided by voteBalance.
C11_CountsAreQuotients ==
    (fx.op = "getTally" /\ fx.done) =>
        /\ fx.out.tally.yes = fx.out.tally.cyes \div voteBalance
        /\ fx.out.tally.no = fx.out.tally.cno \div voteBalance
        /\ fx.out.tally.abstain = fx.out.tally.cabstain \div voteBalance

\* C11 (amended): the integer division is made per user group. Every count
\* of a user's tally is that user's amount integer-divided by voteBalance, and
\* every count and amount of the Tally returned is the sum over the users.
C11_CountsPerUser ==
    (fx.op = "getTally" /\ fx.done) =>
        /\ \A i \in 1..Len(fx.out.tallies) :
            /\ fx.out.tallies[i].yes = fx.out.tallies[i].cyes \div voteBalance
            /\ fx.out.tallies[i].no = fx.out.tallies[i].cno \div voteBalance
            /\ fx.out.tallies[i].abstain = fx.out.tallies[i].cabstain \div voteBalance
        /\ \A f \in {"yes", "no", "abstain", "cyes", "cno", "cabstain"} :
            fx.out.tally[f] = SumField(fx.out.tallies, 1, f)
        /\ fx.out.tally.yes <= fx.out.tally.cyes \div voteBalance
        /\ fx.out.tally.no <= fx.out.tally.cno \div voteBalance
        /\ fx.out.tally.abstain <= fx.out.tally.cabstain \div voteBalance

\* Two users whose yes amounts are odd: the count is below the quotient
C11_Witness ==
    /\ fx.op = "getTally" /\ fx.done
    /\ Len(fx.out.tallies) = 2
    /\ fx.out.tally.yes < fx.out.tally.cyes \div voteBalance

\* C12: every proposal in the store was recorded at a height below its
\* superblock minus proposalCutoff, and every vote at a height below the
\* superblock of its proposal minus votingCutoff.
C12_CutoffInvariant ==
    /\ \A h \in DOMAIN store.proposals :
        store.proposals[h].blockNumber < store.proposals[h].superblock - proposalCutoff
    /\ \A h \in DOMAIN store.votes :
        /\ store.votes[h].proposal \in DOMAIN store.proposals
        /\ store.votes[h].blockNumber
             < store.proposals[store.votes[h].proposal].superblock - votingCutoff

\* A block inside the voting cutoff carried a vote on a stored proposal and
\* left the store as it was, a vote recorded before the cutoff being stored
C12_Witness ==
    /\ last.op = "connect"
    /\ \E i \in 1..Len(chain[last.height].vtx) :
        \E n \in 1..Len(chain[last.height].vtx[i].vout) :
            LET out == chain[last.height].vtx[i].vout[n] IN
            /\ out.type = VOTE
            /\ out.proposal \in DOMAIN store.proposals
            /\ last.height >= store.proposals[out.proposal].superblock - votingCutoff
    /\ store = last.pre
    /\ DOMAIN store.votes # {}

\* The block without the outputs whose payload is truncated
WithoutTruncated(block) ==
    [block EXCEPT !.vtx = [i \in DOMAIN block.vtx |->
        [block.vtx[i] EXCEPT !.vout = SelectSeq(block.vtx[i].vout, LAMBDA o : o.complete)]]]

\* C13: connecting a block that carries truncated payloads raises no error
\* and leaves the store that the block without those outputs leaves.
C13_MalformedSkipped ==
    (last.op = "connect") =>
        /\ ~last.error
        /\ store = processBlock(last.pre, WithoutTruncated(chain[last.height]), last.height,
                                TRUE, SpentUpTo(chain, last.height))

\* The superblock of the proposal of the vote the last call was made on, in
\* the store the call found (0: the proposal is not stored)
CallSuperblock ==
    LET sbs == {sb \in DOMAIN fx.pre.sbvotes : fx.hash \in DOMAIN fx.pre.sbvotes[sb]} IN
    IF sbs = {} THEN 0
    ELSE LET v == fx.pre.sbvotes[CHOOSE sb \in sbs : TRUE][fx.hash] IN
         IF v.proposal \in DOMAIN fx.pre.proposals
         THEN fx.pre.proposals[v.proposal].superblock ELSE 0

\* C14: a spendVote call with a block after the superblock of the vote's
\* proposal changes neither votes nor sbvotes nor any spent marker (the
\* caller's vote included).
C14_SpendAfterSuperblock ==
    (fx.op = "spendVote" /\ CallSuperblock > 0 /\ fx.block > CallSuperblock) =>
        /\ store = fx.pre
        /\ (fx.how = "copy") =>
              fx.vote = (IF fx.prev.how = "copy" /\ fx.prev.hash = fx.hash
                         THEN fx.prev.vote ELSE fx.pre.votes[fx.hash])

C14_Witness ==
    /\ fx.op = "spendVote" /\ fx.how = "ptr"
    /\ CallSuperblock = superblockPeriod /\ fx.block = superblockPeriod + 1
    /\ store = fx.pre
    /\ \E h \in DOMAIN store.votes : ~VoteSpent(store.votes[h])

\* The last two calls were spendVote then unspendVote, made the same way on
\* the same vote with the same block and transaction hash
SpendThenUnspend ==
    /\ fx.op = "unspendVote" /\ fx.prev.op = "spendVote"
    /\ fx.how = fx.prev.how /\ fx.hash = fx.prev.hash
    /\ fx.block = fx.prev.block /\ fx.txhash = fx.prev.txhash

\* The vote the two calls were made on was, before them, in votes and in
\* sbvotes and unspent in both
UnspentBefore ==
    /\ fx.hash \in DOMAIN fx.prev.pre.votes
    /\ ~VoteSpent(fx.prev.pre.votes[fx.hash])
    /\ \A sb \in DOMAIN fx.prev.pre.sbvotes :
        fx.hash \in DOMAIN fx.prev.pre.sbvotes[sb] => ~VoteSpent(fx.prev.pre.sbvotes[sb][fx.hash])

\* C15 (as stated): for any vote of the store, spendVote(h, t) followed by
\* unspendVote(h, t) leaves the store as it was before the two calls.
C15_SpendUnspendIdentity == SpendThenUnspend => (store = fx.prev.pre)

\* C15 (amended): for a vote that is unspent in votes and sbvotes,
\* spendVote(h, t) followed by unspendVote(h, t) leaves the store as it was
\* before the two calls.
C15_SpendUnspendUnspent == (SpendThenUnspend /\ UnspentBefore) => (store = fx.prev.pre)

C15_Witness ==
    /\ SpendThenUnspend /\ UnspentBefore
    /\ fx.how = "ptr" /\ fx.block <= CallSuperblock
    /\ fx.pre # store /\ store = fx.prev.pre

\* The valid votes that the outputs of the block at height bn carry
BlockVotes(bn) ==
    LET block == chain[bn]
        outs == BlockOutputs(block)
    IN {ParseVote(block.vtx[outs[x][1]].vout[outs[x][2]], block.vtx[outs[x][1]], outs[x][2],
                  block.time, TRUE, bn) :
          x \in {y \in DOMAIN outs :
                   LET tx == block.vtx[outs[y][1]]
                       out == tx.vout[outs[y][2]]
                   IN /\ out.version = NETWORK_VERSION /\ out.type = VOTE /\ out.complete
                      /\ VoteIsValidIn(ParseVote(out, tx, outs[y][2], block.time, TRUE, bn),
                                       VinHashes(tx))}}

\* The hashes of the proposals that the outputs of the block at height hp carry
BlockProposalHashes(hp) ==
    LET block == chain[hp]
        outs == BlockOutputs(block)
    IN {ProposalHash(ParseProposal(block.vtx[outs[x][1]].vout[outs[x][2]], TRUE, hp)) :
          x \in {y \in DOMAIN outs :
                   LET out == block.vtx[outs[y][1]].vout[outs[y][2]]
                   IN out.version = NETWORK_VERSION /\ out.type = PROPOSAL /\ out.complete}}

\* Worker k of pass 1 is through with the block at height bn
P1Processed(k, bn) ==
    /\ bn >= P1Start(k, ld.cores, Len(chain))
    /\ bn < ld.w[k].i

\* The proposal lies in a block of the shard of a worker other than k that
\* this worker has not processed yet, and is not in the store
ProposalPending(k, hash) ==
    /\ hash \notin DOMAIN store.proposals
    /\ \E j \in DOMAIN ld.w \ {k} : \E hp \in ld.w[j].i .. (ld.w[j].end - 1) :
          hash \in BlockProposalHashes(hp)

\* C16: in pass 1 a valid vote of a processed block whose proposal lies in a
\* block that another worker has not processed yet is in the store.
C16_VoteBeforeProposalRetained ==
    (ld.phase = "pass1") =>
        \A k \in DOMAIN ld.w : \A bn \in 1..Len(chain) :
            P1Processed(k, bn) =>
                \A vote \in BlockVotes(bn) :
                    ProposalPending(k, vote.proposal) => VoteHash(vote) \in DOMAIN store.votes

\* C17: after a load that returned success every vote of the store has its
\* proposal in the store with a lower block number, and no vote of the
\* snapshot that fails this is still in the store.
C17_VotesHaveEarlierProposal ==
    (ld.phase = "done" /\ ~ld.failed) =>
        /\ \A h \in DOMAIN store.votes :
              hasProposal(store, store.votes[h].proposal, store.votes[h].blockNumber)
        /\ \A x \in DOMAIN ld.tmpvotes :
              ~hasProposal(store, ld.tmpvotes[x].proposal, ld.tmpvotes[x].blockNumber)
                  => VoteHash(ld.tmpvotes[x]) \notin DOMAIN store.votes

\* The heights of the scanned blocks that consume the utxo
SpendHeights(utxo) == {hs \in 1..Len(chain) : utxo \in DOMAIN BlockPrevouts(chain[hs])}

\* The marker the load owes to the vote v: (height, txhash) of the block that
\* consumes its utxo at or below the superblock of its proposal, else unspent
MarkedAsScanned(st, v) ==
    LET sb == st.proposals[v.proposal].superblock
        hs == {x \in SpendHeights(v.utxo) : x <= sb}
    IN IF hs = {}
       THEN v.spentBlock = 0 /\ v.spentHash = NullHash
       ELSE \E x \in hs : v.spentBlock = x /\ v.spentHash = BlockPrevouts(chain[x])[v.utxo]

\* The vote h of votes, and its copy in sbvotes, carry the marker
MarkersAsScanned(st, h) ==
    LET v == st.votes[h]
        sb == st.proposals[v.proposal].superblock
    IN /\ MarkedAsScanned(st, v)
       /\ sb \in DOMAIN st.sbvotes /\ h \in DOMAIN st.sbvotes[sb]
       /\ MarkedAsScanned(st, st.sbvotes[sb][h])

\* C18: after a load that returned success every stored vote is marked spent
\* with the height and transaction of the scanned block that consumes its utxo
\* at or below the superblock of its proposal, in votes and in sbvotes, and is
\* unspent when no such block exists.
C18_SpentMarkers ==
    (ld.phase = "done" /\ ~ld.failed) =>
        \A h \in DOMAIN store.votes :
            store.votes[h].proposal \in DOMAIN store.proposals => MarkersAsScanned(store, h)

\* The same for the votes that pass the test of pass 2
CheckedVotesMarked ==
    (ld.phase = "done" /\ ~ld.failed) =>
        \A h \in DOMAIN store.votes :
            hasProposal(store, store.votes[h].proposal, store.votes[h].blockNumber)
                => MarkersAsScanned(store, h)

\* A worker of the last pass returned before the end of its shard
StoppedEarly(k) == ld.w[k].pc = "done" /\ ld.w[k].i < ld.w[k].end

\* C19: when a worker stopped before the end of its shard (shutdown seen in
\* pass 1 or pass 2, block index or block not read), loadGovernanceData
\* returns false.
C19_AbortedShardFails ==
    (ld.phase = "done" /\ \E k \in DOMAIN ld.w : StoppedEarly(k)) => ~ld.ret

C19_Witness ==
    /\ ld.phase = "done" /\ ~ld.ret /\ ld.cores > 1
    /\ \E k \in DOMAIN ld.w : StoppedEarly(k)
    /\ \E k \in DOMAIN ld.w : ~StoppedEarly(k)
    /\ ld.tmpvotes # <<>> /\ DOMAIN store.votes # {}

\* C20: after loadGovernanceData returned false the store holds no proposal
\* and no vote of the chain.
C20_NoPartialStore ==
    (ld.phase = "done" /\ ~ld.ret) => (store.proposals = EmptyMap /\ store.votes = EmptyMap)

\* C21: a load that returned success left the proposals and the votes (spent
\* markers included) that connecting the same blocks one by one in live mode
\* leaves.
C21_LoadEqualsLive ==
    (ld.phase = "done" /\ ~ld.failed) =>
        LET live == LiveStore(chain, Len(chain)) IN
        /\ store.proposals = live.proposals
        /\ store.votes = live.votes

\* The same for the load with one worker
OneWorkerEqualsLive ==
    (ld.phase = "done" /\ ~ld.failed /\ ld.cores = 1) =>
        LET live == LiveStore(chain, Len(chain)) IN
        /\ store.proposals = live.proposals
        /\ store.votes = live.votes

\* C22: in live mode every stored vote has its proposal in the store with a
\* lower block number, and a vote of the connected block whose proposal was
\* not recorded by an earlier block (same block, or not at all) is not stored.
C22_VoteAfterProposal ==
    /\ \A h \in DOMAIN store.votes :
          /\ store.votes[h].proposal \in DOMAIN store.proposals
          /\ store.proposals[store.votes[h].proposal].blockNumber < store.votes[h].blockNumber
    /\ (last.op = "connect") =>
          \A vote \in BlockVotes(last.height) :
              ~hasProposal(last.pre, vote.proposal, last.height)
                  => VoteHash(vote) \notin DOMAIN store.votes

\* A block carried a proposal and a vote on it: the proposal is stored, the vote is not
C22_Witness ==
    /\ last.op = "connect"
    /\ \E vote \in BlockVotes(last.height) :
          /\ ~hasProposal(last.pre, vote.proposal, last.height)
          /\ vote.proposal \in DOMAIN store.proposals
          /\ store.proposals[vote.proposal].blockNumber = last.height
          /\ VoteHash(vote) \notin DOMAIN store.votes

\* C23: a connected block changes no proposal record that was in the store
\* before it; a proposal observed again keeps the block number of its first
\* observation.
C23_FirstObservationWins ==
    (last.op = "connect") =>
        \A hash \in DOMAIN last.pre.proposals :
            /\ hash \in DOMAIN store.proposals
            /\ store.proposals[hash] = last.pre.proposals[hash]

\* The connected block carried, inside the proposal cutoff, a proposal that
\* an earlier block had recorded
C23_Witness ==
    /\ last.op = "connect"
    /\ \E hash \in BlockProposalHashes(last.height) :
          /\ hash \in DOMAIN last.pre.proposals
          /\ outsideProposalCutoff(last.pre.proposals[hash], last.height)
          /\ store.proposals[hash].blockNumber < last.height

\* The utxo carries an unspent vote on a stored proposal that targets superblock sb
UnspentVoteFor(utxo, sb) ==
    \E h \in DOMAIN store.votes :
        /\ store.votes[h].utxo = utxo /\ ~VoteSpent(store.votes[h])
        /\ store.votes[h].proposal \in DOMAIN store.proposals
        /\ store.proposals[store.votes[h].proposal].superblock = sb

\* The superblock heights around the tip heights of the calls
Superblocks == {sb \in 1..(3 * superblockPeriod) : isSuperblock(sb)}

\* C24 (as stated): utxoInVoteCutoff is true for every tip height h with
\* S - votingCutoff <= h <= S and every utxo with an unspent vote on a
\* proposal for S, and false for a tip height outside every such window.
C24_TrueInsideCutoff ==
    (fx.op = "utxoInVoteCutoff" /\ fx.done) =>
        /\ \A sb \in Superblocks :
              (insideVoteCutoff(sb, fx.tipHeight) /\ UnspentVoteFor(fx.utxo, sb)) => fx.out
        /\ (\A sb \in Superblocks : ~insideVoteCutoff(sb, fx.tipHeight)) => ~fx.out

\* C24 (amended): utxoInVoteCutoff is true exactly when the tip height h is
\* below the next superblock S with S - votingCutoff <= h < S and the utxo
\* carries an unspent vote on a proposal for S; at h = S it is false.
C24_TrueBelowSuperblock ==
    (fx.op = "utxoInVoteCutoff" /\ fx.done) =>
        (fx.out <=> \E sb \in Superblocks :
                        /\ sb - votingCutoff <= fx.tipHeight /\ fx.tipHeight < sb
                        /\ UnspentVoteFor(fx.utxo, sb))

C24_Witness ==
    /\ fx.op = "utxoInVoteCutoff" /\ fx.done /\ fx.out
    /\ fx.tipHeight = superblockPeriod - votingCutoff
    /\ UnspentVoteFor(fx.utxo, superblockPeriod)

\* C25: at a superblock height for which no proposal passes (no result, no
\* expected payee) isValidSuperblock accepts the block iff it is
\* proof-of-stake, whatever its outputs; a block that is not proof-of-stake
\* is accepted at no height.
C25_EmptyPayeesAcceptStake ==
    (fx.op = "isValidSuperblock" /\ fx.done) =>
        /\ (isSuperblock(fx.blockHeight) /\ DOMAIN getSuperblockResults(store, fx.blockHeight) = {})
              => (Len(fx.out.payees) = 0 /\ (fx.out.ok <=> fx.block.pos))
        /\ ~fx.block.pos => ~fx.out.ok

\* A proof-of-stake block with the most outputs accepted, no proposal passing
C25_Witness ==
    /\ fx.op = "isValidSuperblock" /\ fx.done
    /\ isSuperblock(fx.blockHeight) /\ fx.block.pos
    /\ DOMAIN getSuperblockResults(store, fx.blockHeight) = {}
    /\ DOMAIN store.proposals # {}
    /\ Len(fx.block.vtx[2].vout) > 2
    /\ fx.out.ok

\* C26: of the valid votes of the connected block that share a vote-id, the
\* set extracted from the block holds the one with the largest sig-hash,
\* whatever their order in the block.
C26_LargerSigHashKept ==
    (last.op = "connect" /\ ~last.error) =>
        \A v \in last.vs : \A w \in BlockVotes(last.height) :
            (VoteHash(w) = VoteHash(v)) => SigHash(w) <= SigHash(v)

\* C27: a vote of the connected block whose id is in the store replaces the
\* stored record iff its time is greater, or the times are equal and its
\* sig-hash is greater; otherwise the stored record is left as it was.
C27_ReplaceByTimeThenSigHash ==
    (last.op = "connect") =>
        \A v \in last.vs :
            VoteHash(v) \in DOMAIN last.pre.votes =>
                LET old == last.pre.votes[VoteHash(v)] IN
                IF \/ v.time > old.time
                   \/ (v.time = old.time /\ SigHash(v) > SigHash(old))
                THEN store.votes[VoteHash(v)] = v
                ELSE store.votes[VoteHash(v)] = old

\* The marker of a vote record
Marker(v) == <<v.spentBlock, v.spentHash>>

\* C28: after a block is connected at height h every stored vote of a
\* proposal with superblock >= h whose utxo an input of the block consumes is
\* marked spent with h and the hash of the spending transaction, in votes and
\* in sbvotes; the votes whose utxo the block does not consume keep their
\* marker.
C28_SpentByBlock ==
    (last.op = "connect" /\ ~last.error) =>
        LET prevouts == BlockPrevouts(chain[last.height]) IN
        \A h \in DOMAIN store.votes :
            LET v == store.votes[h] IN
            IF v.utxo \in DOMAIN prevouts
            THEN (v.proposal \in DOMAIN store.proposals
                  /\ store.proposals[v.proposal].superblock >= last.height)
                 => /\ Marker(v) = <<last.height, prevouts[v.utxo]>>
                    /\ LET sb == store.proposals[v.proposal].superblock IN
                       /\ sb \in DOMAIN store.sbvotes /\ h \in DOMAIN store.sbvotes[sb]
                       /\ Marker(store.sbvotes[sb][h]) = <<last.height, prevouts[v.utxo]>>
            ELSE (h \in DOMAIN last.pre.votes /\ last.pre.votes[h].blockNumber = v.blockNumber)
                 => Marker(v) = Marker(last.pre.votes[h])

\* The same for the votes that were unspent when the block arrived: the ones
\* getMutableSBVotes hands to the spend loop
UnspentVotesSpentByBlock ==
    (last.op = "connect" /\ ~last.error) =>
        LET prevouts == BlockPrevouts(chain[last.height]) IN
        \A h \in DOMAIN store.votes :
            LET v == store.votes[h] IN
            ( /\ v.utxo \in DOMAIN prevouts
              /\ v.proposal \in DOMAIN store.proposals
              /\ store.proposals[v.proposal].superblock >= last.height
              /\ (h \in DOMAIN last.pre.votes => ~VoteSpent(last.pre.votes[h])) )
            => Marker(v) = <<last.height, prevouts[v.utxo]>>

\* A block consumed the utxo of a stored vote, now marked with the block
C28_Witness ==
    /\ last.op = "connect"
    /\ \E h \in DOMAIN store.votes :
          /\ h \in DOMAIN last.pre.votes /\ ~VoteSpent(last.pre.votes[h])
          /\ store.votes[h].utxo \in DOMAIN BlockPrevouts(chain[last.height])
          /\ store.votes[h].spentBlock = last.height

\* The extracted votes of the connected block that are new to the store and
\* whose utxo the chainstate has spent
SpentNewVotes ==
    {v \in last.vs : /\ VoteHash(v) \notin DOMAIN last.pre.votes
                     /\ v.utxo \in SpentUpTo(chain, Len(chain))}

\* C29: in live mode a vote whose id is not in the store and whose utxo is
\* spent in the chainstate is inserted into neither votes nor sbvotes; the
\* same block processed in load mode on the same store does insert it.
C29_SpentNewVoteRejected ==
    (last.op = "connect" /\ ~last.error) =>
        \A v \in SpentNewVotes :
            /\ VoteHash(v) \notin DOMAIN store.votes
            /\ \A sb \in DOMAIN store.sbvotes : VoteHash(v) \notin DOMAIN store.sbvotes[sb]
            /\ LET loaded == processBlock(last.pre, chain[last.height], last.height, FALSE,
                                          SpentUpTo(chain, Len(chain)))
               IN /\ VoteHash(v) \in DOMAIN loaded.votes
                  /\ \E sb \in DOMAIN loaded.sbvotes : VoteHash(v) \in DOMAIN loaded.sbvotes[sb]

\* A block brought a new vote on a stored proposal with a spent utxo
C29_Witness ==
    /\ last.op = "connect" /\ ~last.error
    /\ \E v \in SpentNewVotes : v.proposal \in DOMAIN last.pre.proposals

\* The ids of the votes that carry a spent marker in votes or in sbvotes
SpentIds(st) ==
    {h \in DOMAIN st.votes : VoteSpent(st.votes[h])}
    \cup UNION {{h \in DOMAIN st.sbvotes[sb] : VoteSpent(st.sbvotes[sb][h])} :
                sb \in DOMAIN st.sbvotes}

\* The store with the votes that are marked spent taken out
WithoutSpent(st) ==
    [proposals |-> st.proposals,
     votes |-> [h \in DOMAIN st.votes \ SpentIds(st) |-> st.votes[h]],
     sbvotes |-> [sb \in DOMAIN st.sbvotes |->
                    [h \in DOMAIN st.sbvotes[sb] \ SpentIds(st) |-> st.sbvotes[sb][h]]]]

\* The superblocks the live chain can hold proposals for
CountedSuperblocks == {superblockPeriod, 2 * superblockPeriod}

\* C30: a vote marked spent is not counted: no getVotes query (all votes, by
\* proposal, by superblock) returns a vote with a spent marker, and every
\* tally, every superblock result and uniqueVotes are what they are in the
\* store without the spent votes.
C30_SpentVotesNotCounted ==
    LET clean == WithoutSpent(store) IN
    /\ \A v \in getVotesAll(store) : VoteHash(v) \notin SpentIds(store)
    /\ \A p \in DOMAIN store.proposals :
          /\ \A v \in getVotesFor(store, p) : VoteHash(v) \notin SpentIds(store)
          /\ getVotesFor(store, p) = getVotesFor(clean, p)
    /\ \A sb \in CountedSuperblocks :
          LET d == getProposalsForSuperblock(store, sb)
              c == getProposalsForSuperblock(clean, sb)
          IN /\ \A v \in getVotes(store, sb) : VoteHash(v) \notin SpentIds(store)
             /\ \A p \in d.ps : getTally(ProposalHash(p), d.vs) = getTally(ProposalHash(p), c.vs)
             /\ UniqueAmount(d.vs, 1, {}) = UniqueAmount(c.vs, 1, {})
             /\ getSuperblockResults(store, sb) = getSuperblockResults(clean, sb)

\* A YES vote that would carry its proposal is stored with a spent marker
C30_Witness ==
    \E h \in DOMAIN store.votes :
        /\ VoteSpent(store.votes[h])
        /\ store.votes[h].vote = YES
        /\ \E sb \in CountedSuperblocks :
              /\ getSuperblockResults(store, sb) = EmptyMap
              /\ getSuperblockResults([store EXCEPT !.sbvotes[sb][h].spentBlock = 0], sb) # EmptyMap

\* The budget of a superblock
SuperblockBudget(superblock) == Min(proposalMaxAmount, GetBlockSubsidy(superblock))

\* C31: the amounts of the payees returned by getSuperblockPayees add up to at
\* most min(proposalMaxAmount, blockSubsidy), and the payees come from distinct
\* proposals of the result set: no proposal yields two payees.
C31_PayeesWithinBudget ==
    (fx.op = "getSuperblockPayees" /\ fx.done) =>
        /\ SumValues(fx.out, 1) <= SuperblockBudget(fx.superblock)
        /\ Len(fx.out) <= Cardinality(DOMAIN fx.results)
        /\ \E f \in [1..Len(fx.out) -> DOMAIN fx.results] :
              /\ \A i \in DOMAIN f : \A j \in DOMAIN f : (i # j) => f[i] # f[j]
              /\ \A i \in DOMAIN f :
                    /\ fx.out[i].nValue = f[i].amount
                    /\ fx.out[i].scriptPubKey = ScriptFor(f[i].address)

\* The proposals of the result set ask for more than the budget together and
\* the payees use the budget up
C31_Witness ==
    /\ fx.op = "getSuperblockPayees" /\ fx.done
    /\ SumValues([i \in 1..Len(fx.props) |-> [nValue |-> fx.props[i].p.amount]], 1)
          > SuperblockBudget(fx.superblock)
    /\ SumValues(fx.out, 1) = SuperblockBudget(fx.superblock)

\* ------------------------------------------------------------------------
\* The shard bounds of the loader, for worker counts above the number of items
\* ------------------------------------------------------------------------
MaxShardCores == 5
MaxShardItems == 7

InitShards ==
    /\ chain = <<>>
    /\ store = EmptyStore
    /\ last = [op |-> "init", height |-> 0, pre |-> EmptyStore, vs |-> {}, error |-> FALSE]
    /\ ld = LdIdle
    /\ \E cores \in 1..MaxShardCores :
       \E blockHeight \in governanceBlock..MaxShardItems :
       \E size \in 0..MaxShardItems :
        fx = [op |-> "shards", done |-> FALSE, cores |-> cores, blockHeight |-> blockHeight,
              size |-> size, p1 |-> <<>>, p2 |-> <<>>]

\* The two loops "for (int k = 0; k < cores; ++k)": the <<start, end>> handed
\* to each worker
Shards ==
    /\ fx.op = "shards"
    /\ ~fx.done
    /\ fx' = [fx EXCEPT
                !.done = TRUE,
                !.p1 = [k \in 0..(fx.cores - 1) |->
                          <<P1Start(k, fx.cores, fx.blockHeight),
                            P1End(k, fx.cores, fx.blockHeight)>>],
                !.p2 = [k \in 0..(fx.cores - 1) |->
                          <<P2Start(k, fx.cores, fx.size), P2End(k, fx.cores, fx.size)>>]]
    /\ UNCHANGED <<chain, store, last, ld>>

NextShards == Shards

SpecShards == InitShards /\ [][NextShards]_vars

\* The items a loop "for (i = start; i < end; ++i)" visits
LoopItems(se) == se[1]..(se[2] - 1)

\* The workers whose loop visits item x
WorkersOf(shards, x) == {k \in DOMAIN shards : x \in LoopItems(shards[k])}

\* C32: for every worker count N >= 1 the shards partition the work: every
\* block height of [governanceBlock, blockHeight] is visited by exactly one
\* worker of pass 1 and every index of the snapshot by exactly one worker of
\* pass 2, and no worker visits anything else.
C32_ShardsPartition ==
    (fx.op = "shards" /\ fx.done) =>
        /\ \A h \in governanceBlock..fx.blockHeight : Cardinality(WorkersOf(fx.p1, h)) = 1
        /\ \A k \in DOMAIN fx.p1 : LoopItems(fx.p1[k]) \subseteq governanceBlock..fx.blockHeight
        /\ \A i \in 0..(fx.size - 1) : Cardinality(WorkersOf(fx.p2, i)) = 1
        /\ \A k \in DOMAIN fx.p2 : LoopItems(fx.p2[k]) \subseteq 0..(fx.size - 1)

\* More workers than blocks and than votes, and work in both passes
C32_Witness ==
    /\ fx.op = "shards" /\ fx.done
    /\ fx.cores > fx.blockHeight - governanceBlock + 1
    /\ fx.cores > fx.size
    /\ fx.size > 1
    /\ fx.blockHeight > governanceBlock
    /\ \E k \in DOMAIN fx.p1 : LoopItems(fx.p1[k]) = governanceBlock..fx.blockHeight

\* Every vote of the store st, in votes and in sbvotes, references a stored
\* proposal
VotesReferenceProposals(st) ==
    /\ \A h \in DOMAIN st.votes : st.votes[h].proposal \in DOMAIN st.proposals
    /\ \A sb \in DOMAIN st.sbvotes : \A h \in DOMAIN st.sbvotes[sb] :
          st.sbvotes[sb][h].proposal \in DOMAIN st.proposals

\* Votes handed to addVote: on the proposal of the live chain and on another
OrphanPool == {VoteBy(q, YES, 1, 1, 1) : q \in {PA, PB}}

\* C35: addVote stores nothing unless the referenced proposal is present, and
\* whatever blocks are connected in chain order and disconnected in reverse
\* order, every vote in votes and in sbvotes references a proposal that is in
\* proposals.
C35_ReferentialIntegrity ==
    /\ VotesReferenceProposals(store)
    /\ \A v \in OrphanPool :
          v.proposal \notin DOMAIN store.proposals => addVote(store, v) = store

\* The block of a vote was disconnected and took the vote with it, its
\* proposal being still stored
C35_Witness ==
    /\ last.op = "disconnect"
    /\ DOMAIN last.pre.votes # {}
    /\ DOMAIN store.votes = {}
    /\ DOMAIN store.proposals # {}

\* The blocks that can extend the tip: they spend no outpoint spent below
NextBlocks ==
    {B \in LiveBlocks(Len(chain) + 1) :
       DOMAIN BlockPrevouts(B) \cap SpentUpTo(chain, Len(chain)) = {}}

\* The store after block B is connected on the tip and disconnected at once
ConnectThenDisconnect(B) ==
    LET h == Len(chain) + 1 IN
    BlockDisconnected(processBlock(store, B, h, TRUE, SpentUpTo(Append(chain, B), h)), B, h)

\* A store without its empty sbvotes buckets
DropEmptyBuckets(st) ==
    [st EXCEPT !.sbvotes = [sb \in {x \in DOMAIN st.sbvotes : DOMAIN st.sbvotes[x] # {}} |->
                              st.sbvotes[sb]]]

\* C36: in every reachable state, connecting a block on the tip and
\* disconnecting it at once gives the store back as it was: the same
\* proposals, votes and markers (an sbvotes bucket left empty counts as absent).
C36_SingleStepUndo ==
    \A B \in NextBlocks :
        DropEmptyBuckets(ConnectThenDisconnect(B)) = DropEmptyBuckets(store)

\* The undo for the blocks that neither replace a stored vote nor consume the
\* utxo of a stored unspent vote, the empty sbvotes buckets left aside
PlainBlockUndo ==
    \A B \in NextBlocks :
        LET h == Len(chain) + 1
            d == dataFromBlock(store, B, TRUE, h, TRUE)
        IN ( /\ \A v \in d.vs : VoteHash(v) \notin DOMAIN store.votes
             /\ \A x \in DOMAIN store.votes :
                   VoteSpent(store.votes[x]) \/ store.votes[x].utxo \notin DOMAIN BlockPrevouts(B) )
           => DropEmptyBuckets(ConnectThenDisconnect(B)) = DropEmptyBuckets(store)

\* ------------------------------------------------------------------------
\* Live mode with a proposal for the second superblock: there is room for a
\* vote, the spend of its utxo and a change of the vote before the cutoff
\* ------------------------------------------------------------------------
MaxChangeHeight == 5

PL == ProposalOut(1, 2 * superblockPeriod, 3, 1)

ChangeBlocks(h) ==
    {[time |-> 1, vtx |-> <<>>],
     [time |-> 1, vtx |-> <<Tx(TxId(h, 1), {FeeIn(TxId(h, 1))}, <<PL>>)>>],
     [time |-> 1, vtx |-> <<Tx(TxId(h, 2), {1}, <<>>)>>]}
    \cup {[time |-> t,
           vtx |-> <<Tx(TxId(h, 3), {FeeIn(TxId(h, 3))}, <<VoteOut(PL, c, 1, TxId(h, 3))>>)>>] :
          t \in VoteTimes, c \in {YES, NO}}

ConnectChange ==
    /\ Len(chain) < MaxChangeHeight
    /\ \E block \in ChangeBlocks(Len(chain) + 1) : ConnectBlock(block)

NextChange == ConnectChange \/ Disconnect

SpecChange == Init /\ [][NextChange]_vars

\* The block that set the marker of v is on the chain below the tip: it is at
\* height spentBlock and its transaction spentHash consumes the utxo of v
SpenderConnected(v) ==
    /\ v.spentBlock < Len(chain)
    /\ v.utxo \in DOMAIN BlockPrevouts(chain[v.spentBlock])
    /\ BlockPrevouts(chain[v.spentBlock])[v.utxo] = v.spentHash

\* C37: a vote record marked spent at a height not above its superblock stays
\* marked while the spending block is connected: after a later block is
\* connected, the vote id is still stored with the same (spentBlock,
\* spentHash), in votes and in sbvotes.
C37_SpentMarkerKept ==
    (last.op = "connect" /\ ~last.error) =>
        \A h \in DOMAIN last.pre.votes :
            LET v == last.pre.votes[h] IN
            (VoteSpent(v) /\ SpenderConnected(v)) =>
                /\ h \in DOMAIN store.votes
                /\ Marker(store.votes[h]) = Marker(v)
                /\ \A sb \in DOMAIN store.sbvotes :
                      h \in DOMAIN store.sbvotes[sb] =>
                          Marker(store.sbvotes[sb][h]) = Marker(v)

\* The same for the blocks that carry no vote with a stored id
SpentMarkerKeptWithoutChange ==
    (last.op = "connect" /\ ~last.error
       /\ \A v \in last.vs : VoteHash(v) \notin DOMAIN last.pre.votes) =>
        \A h \in DOMAIN last.pre.votes :
            (VoteSpent(last.pre.votes[h]) /\ SpenderConnected(last.pre.votes[h])) =>
                /\ h \in DOMAIN store.votes
                /\ store.votes[h] = last.pre.votes[h]

\* The proposals of store st for superblock sb and the votes of its bucket
TargetingSuperblock(st, sb) ==
    [proposals |-> {p \in Range(st.proposals) : p.superblock = sb},
     votes |-> {v \in Range(st.votes) :
                  v.proposal \in DOMAIN st.proposals /\ st.proposals[v.proposal].superblock = sb},
     sbvotes |-> IF sb \in DOMAIN st.sbvotes THEN st.sbvotes[sb] ELSE EmptyMap]

\* C38: a block connected above the superblock S leaves getSuperblockResults(S)
\* as it was, and with it the proposals and the votes that target S and their
\* spent markers.
C38_ResultsFinal ==
    \A S \in CountedSuperblocks :
        (last.op = "connect" /\ ~last.error /\ last.height > S) =>
            /\ getSuperblockResults(store, S) = getSuperblockResults(last.pre, S)
            /\ TargetingSuperblock(store, S) = TargetingSuperblock(last.pre, S)

\* A block above the superblock consumes the utxo of an unspent vote that
\* carries a proposal of the superblock
C38_Witness ==
    /\ last.op = "connect" /\ ~last.error
    /\ last.height > superblockPeriod
    /\ getSuperblockResults(store, superblockPeriod) # EmptyMap
    /\ \E h \in DOMAIN store.votes :
          store.votes[h].utxo \in DOMAIN BlockPrevouts(chain[last.height])

\* ------------------------------------------------------------------------
\* loadGovernanceData, one step per lock operation: mut is the mutex of the
\* loader, mu the mutex of the store, cs the chain mutex; each holds the set
\* of its owner (empty when free)
\* ------------------------------------------------------------------------
MaxLockHeight == 3
MaxLockCores == 2

LockKinds == {"proposal", "votes", "spend"}

\* The block of each kind at height h: a proposal, two transactions with a
\* vote each (utxos 1 and 2), a transaction that spends both utxos
LockBlock(h, kind) ==
    CASE kind = "proposal" ->
            [time |-> 1, vtx |-> <<Tx(TxId(h, 1), {FeeIn(TxId(h, 1))}, <<PA>>)>>]
      [] kind = "votes" ->
            [time |-> 1,
             vtx |-> <<Tx(TxId(h, 3), {FeeIn(TxId(h, 3))}, <<VoteOut(PA, YES, 1, TxId(h, 3))>>),
                       Tx(TxId(h, 4), {FeeIn(TxId(h, 4))}, <<VoteOut(PA, NO, 2, TxId(h, 4))>>)>>]
      [] OTHER -> [time |-> 1, vtx |-> <<Tx(TxId(h, 2), {1, 2}, <<>>)>>]

LockWorker(start, end) ==
    [pc |-> "head", i |-> start, end |-> end, tx |-> 1, ps |-> {}, vs |-> {},
     pv |-> NullVote, vote |-> NullVote, ins |-> 0]

InitLoadLocks ==
    /\ \E n \in 0..MaxLockHeight : \E kinds \in [1..n -> LockKinds] :
        /\ chain = [h \in 1..n |-> LockBlock(h, kinds[h])]
        /\ ValidChain(chain)
    /\ store = EmptyStore
    /\ last = [op |-> "init", height |-> 0, pre |-> EmptyStore, vs |-> {}, error |-> FALSE]
    /\ \E cores \in 1..MaxLockCores :
        ld = [phase |-> "start", cores |-> cores, shutdown |-> FALSE, failed |-> FALSE,
              ret |-> FALSE, spentPrevouts |-> EmptyMap, tmpvotes |-> <<>>, w |-> <<>>,
              mut |-> {}, mu |-> {}, cs |-> {}, unguarded |-> FALSE]
    /\ fx = FxIdle

\* The use of spentPrevouts without LOCK(mut)
LockPrevoutsNone(l, k) == l

\* LOCK(mut) by worker k where it is about to use spentPrevouts
LockPrevouts(l, k) == [l EXCEPT !.mut = {k}]

\* The end of the scope of LOCK(mu) inside getProposal
UnlockGetProposal(l) == [l EXCEPT !.mu = {}]

\* A use of spentPrevouts by worker k: it is unguarded if k does not own mut
UsesPrevouts(l, k) == [l EXCEPT !.unguarded = @ \/ (l.mut # {k})]

\* n insertions by worker k: counted if k owns mut and mu together
Inserted(l, k, n) ==
    IF l.mut = {k} /\ l.mu = {k} THEN [l EXCEPT !.w[k].ins = @ + n] ELSE l

\* The head of loadGovernanceData: nothing to load, or the workers of pass 1
LockLoadStart ==
    /\ ld.phase = "start"
    /\ ld.cs = {}
    /\ LET blockHeight == Len(chain) IN
       IF blockHeight = 0 \/ blockHeight < governanceBlock
       THEN ld' = [ld EXCEPT !.phase = "done", !.ret = TRUE]
       ELSE ld' = [ld EXCEPT !.phase = "pass1",
                     !.w = [k \in 0..(ld.cores - 1) |->
                              LockWorker(P1Start(k, ld.cores, blockHeight),
                                         P1End(k, ld.cores, blockHeight))]]
    /\ UNCHANGED <<chain, store, last, fx>>

LockRequestShutdown ==
    /\ ld.phase \in {"pass1", "pass2"}
    /\ ~ld.shutdown
    /\ ld' = [ld EXCEPT !.shutdown = TRUE]
    /\ UNCHANGED <<chain, store, last, fx>>

\* for (...; i < end; ...) and if (ShutdownRequested())
WHead(k) ==
    /\ ld.phase \in {"pass1", "pass2"}
    /\ ld.w[k].pc = "head"
    /\ ld' = [ld EXCEPT !.w[k].pc =
                IF ld.w[k].i >= ld.w[k].end THEN "done"
                ELSE IF ld.shutdown THEN "fail"
                ELSE IF ld.phase = "pass1" THEN "index" ELSE "tmp"]
    /\ UNCHANGED <<chain, store, last, fx>>

\* LOCK(mut); failed = true; return false
WFailLock(k) ==
    /\ ld.w[k].pc = "fail"
    /\ ld.mut = {}
    /\ ld' = [ld EXCEPT !.mut = {k}, !.w[k].pc = "failHeld"]
    /\ UNCHANGED <<chain, store, last, fx>>

WFailSet(k) ==
    /\ ld.w[k].pc = "failHeld"
    /\ ld' = [ld EXCEPT !.failed = TRUE, !.mut = {}, !.w[k].pc = "done"]
    /\ UNCHANGED <<chain, store, last, fx>>

\* { LOCK(chainMutex); blockIndex = chain[blockNumber]; }
P1IndexLock(k) ==
    /\ ld.w[k].pc = "index"
    /\ ld.cs = {}
    /\ ld' = [ld EXCEPT !.cs = {k}, !.w[k].pc = "indexHeld"]
    /\ UNCHANGED <<chain, store, last, fx>>

P1IndexRead(k) ==
    /\ ld.w[k].pc = "indexHeld"
    /\ ld' = [ld EXCEPT !.cs = {}, !.w[k].pc = "disk"]
    /\ UNCHANGED <<chain, store, last, fx>>

\* ReadBlockFromDisk succeeds
P1Disk(k) ==
    /\ ld.w[k].pc = "disk"
    /\ ld' = [ld EXCEPT !.w[k].pc = "vins", !.w[k].tx = 1]
    /\ UNCHANGED <<chain, store, last, fx>>

\* ReadBlockFromDisk fails
P1DiskFail(k) ==
    /\ ld.w[k].pc = "disk"
    /\ ld' = [ld EXCEPT !.w[k].pc = "fail"]
    /\ UNCHANGED <<chain, store, last, fx>>

\* for (tx : block.vtx) { LOCK(mut); ... }: the lock for the next transaction
P1VinLock(k) ==
    /\ ld.w[k].pc = "vins"
    /\ ld.w[k].tx <= Len(chain[ld.w[k].i].vtx)
    /\ ld.mut = {}
    /\ ld' = [ld EXCEPT !.mut = {k}, !.w[k].pc = "vinsHeld"]
    /\ UNCHANGED <<chain, store, last, fx>>

\* spentPrevouts[vin.prevout] = ... for the inputs of the transaction
P1VinInsert(k) ==
    /\ ld.w[k].pc = "vinsHeld"
    /\ LET bn == ld.w[k].i
           tx == chain[bn].vtx[ld.w[k].tx]
           l1 == Inserted(UsesPrevouts(ld, k), k, Cardinality(tx.vin))
       IN ld' = [l1 EXCEPT !.spentPrevouts =
                              RecordPrevouts(@, [time |-> 0, vtx |-> <<tx>>], bn),
                           !.mut = {}, !.w[k].tx = @ + 1, !.w[k].pc = "vins"]
    /\ UNCHANGED <<chain, store, last, fx>>

\* processBlock: dataFromBlock, which reads the store under mu for each vote
P1Parse(k) ==
    /\ ld.w[k].pc = "vins"
    /\ ld.w[k].tx > Len(chain[ld.w[k].i].vtx)
    /\ LET bn == ld.w[k].i
           d == dataFromBlock(store, chain[bn], TRUE, bn, FALSE)
       IN /\ (BlockVotes(bn) # {}) => ld.mu = {}
          /\ ld' = [ld EXCEPT !.w[k].pc = "lock", !.w[k].ps = d.ps, !.w[k].vs = d.vs]
    /\ UNCHANGED <<chain, store, last, fx>>

\* processBlock: LOCK(mu)
P1Lock(k) ==
    /\ ld.w[k].pc = "lock"
    /\ ld.mu = {}
    /\ ld' = [ld EXCEPT !.mu = {k}, !.w[k].pc = "apply"]
    /\ UNCHANGED <<chain, store, last, fx>>

\* The worker after a run of the vote loop, without LEAVE_CRITICAL_SECTION
LockAfterVoteLoopHeld(l, k, r) ==
    IF r.wait
    THEN [l EXCEPT !.w[k].pc = "leave", !.w[k].ps = {}, !.w[k].vs = r.vs, !.w[k].pv = r.pv]
    ELSE [l EXCEPT !.mu = {}, !.w[k].pc = "head", !.w[k].i = @ + 1, !.w[k].ps = {},
                   !.w[k].vs = {}, !.w[k].pv = NullVote]

\* The worker after a run of the vote loop: mu is released, for the spent
\* check of a new vote (LEAVE_CRITICAL_SECTION) or at the return
LockAfterVoteLoop(l, k, r) ==
    LET n == Cardinality(DOMAIN r.st.proposals \ DOMAIN store.proposals)
             + (IF r.st.votes # store.votes THEN 1 ELSE 0)
        l1 == Inserted(l, k, n)
    IN IF r.wait
       THEN [l1 EXCEPT !.mu = {}, !.w[k].pc = "leave", !.w[k].ps = {}, !.w[k].vs = r.vs,
                       !.w[k].pv = r.pv]
       ELSE [l1 EXCEPT !.mu = {}, !.w[k].pc = "head", !.w[k].i = @ + 1, !.w[k].ps = {},
                       !.w[k].vs = {}, !.w[k].pv = NullVote]

\* processBlock under mu: the proposals, then the votes up to the first vote
\* that is not stored yet
P1ApplyLocked(k) ==
    /\ ld.w[k].pc = "apply"
    /\ LET r == voteLoop(addProposals(store, ld.w[k].ps), ld.w[k].vs) IN
        /\ store' = r.st
        /\ ld' = LockAfterVoteLoop(ld, k, r)
    /\ UNCHANGED <<chain, last, fx>>

\* spent = processingChainTip && IsVoteSpent(vote): false, no lock is taken
P1Leave(k) ==
    /\ ld.w[k].pc = "leave"
    /\ ld' = [ld EXCEPT !.w[k].pc = "enter"]
    /\ UNCHANGED <<chain, store, last, fx>>

\* ENTER_CRITICAL_SECTION(mu)
P1Enter(k) ==
    /\ ld.w[k].pc = "enter"
    /\ ld.mu = {}
    /\ ld' = [ld EXCEPT !.mu = {k}, !.w[k].pc = "insert"]
    /\ UNCHANGED <<chain, store, last, fx>>

\* addVote(vote) and the rest of the vote loop
P1Insert(k) ==
    /\ ld.w[k].pc = "insert"
    /\ LET r == voteLoop(addVote(store, ld.w[k].pv), ld.w[k].vs) IN
        /\ store' = r.st
        /\ ld' = LockAfterVoteLoop(ld, k, r)
    /\ UNCHANGED <<chain, last, fx>>

\* join_all after pass 1
LockJoinPass1 ==
    /\ ld.phase = "pass1"
    /\ \A k \in DOMAIN ld.w : ld.w[k].pc = "done"
    /\ ld' = [ld EXCEPT !.phase = "check"]
    /\ UNCHANGED <<chain, store, last, fx>>

\* { LOCK(mu); if (votes.empty() || failed) return !failed; } and the snapshot
LockCheck ==
    /\ ld.phase = "check"
    /\ ld.mu = {}
    /\ IF DOMAIN store.votes = {} \/ ld.failed
       THEN ld' = [ld EXCEPT !.phase = "done", !.ret = ~ld.failed]
       ELSE LET tmp == Snapshot(store) IN
            ld' = [ld EXCEPT !.phase = "pass2", !.tmpvotes = tmp,
                     !.w = [k \in 0..(ld.cores - 1) |->
                              LockWorker(P2Start(k, ld.cores, Len(tmp)),
                                         P2End(k, ld.cores, Len(tmp)))]]
    /\ UNCHANGED <<chain, store, last, fx>>

\* { LOCK(mut); vote = tmpvotes[i].second; }
P2TmpLock(k) ==
    /\ ld.w[k].pc = "tmp"
    /\ ld.mut = {}
    /\ ld' = [ld EXCEPT !.mut = {k}, !.w[k].pc = "tmpHeld"]
    /\ UNCHANGED <<chain, store, last, fx>>

P2TmpRead(k) ==
    /\ ld.w[k].pc = "tmpHeld"
    /\ ld' = [ld EXCEPT !.mut = {}, !.w[k].vote = ld.tmpvotes[ld.w[k].i + 1],
                        !.w[k].pc = "has"]
    /\ UNCHANGED <<chain, store, last, fx>>

\* hasProposal(vote.getProposal(), vote.getBlockNumber()): LOCK(mu)
P2HasLock(k) ==
    /\ ld.w[k].pc = "has"
    /\ ld.mu = {}
    /\ ld' = [ld EXCEPT !.mu = {k}, !.w[k].pc = "hasHeld"]
    /\ UNCHANGED <<chain, store, last, fx>>

P2Has(k) ==
    /\ ld.w[k].pc = "hasHeld"
    /\ ld' = IF hasProposal(store, ld.w[k].vote.proposal, ld.w[k].vote.blockNumber)
             THEN [ld EXCEPT !.mu = {}, !.w[k].pc = "sp"]
             ELSE [ld EXCEPT !.mu = {}, !.w[k].pc = "head", !.w[k].i = @ + 1]
    /\ UNCHANGED <<chain, store, last, fx>>

\* { LOCK(mut); if (spentPrevouts.count(vote.getUtxo()) && ...
P2SpLock(k) ==
    /\ ld.w[k].pc = "sp"
    /\ ld.mut = {}
    /\ ld' = [LockPrevouts(ld, k) EXCEPT !.w[k].pc = "spHeld"]
    /\ UNCHANGED <<chain, store, last, fx>>

\* spentPrevouts.count(vote.getUtxo()): zero ends the scope of mut
P2SpCount(k) ==
    /\ ld.w[k].pc = "spHeld"
    /\ LET l1 == UsesPrevouts(ld, k) IN
       ld' = IF ld.w[k].vote.utxo \in DOMAIN ld.spentPrevouts
             THEN [l1 EXCEPT !.w[k].pc = "gp"]
             ELSE [l1 EXCEPT !.mut = {}, !.w[k].pc = "add"]
    /\ UNCHANGED <<chain, store, last, fx>>

\* getProposal(vote.getProposal()): LOCK(mu), mut being held
P2GpLock(k) ==
    /\ ld.w[k].pc = "gp"
    /\ ld.mu = {}
    /\ ld' = [ld EXCEPT !.mu = {k}, !.w[k].pc = "gpHeld", !.w[k].ins = 0]
    /\ UNCHANGED <<chain, store, last, fx>>

\* getProposal returns, the heights are compared, vote.spend marks the local
\* vote, the scope of mut ends
P2Gp(k) ==
    /\ ld.w[k].pc = "gpHeld"
    /\ LET v == ld.w[k].vote
           sp == ld.spentPrevouts
           l1 == UnlockGetProposal(UsesPrevouts(ld, k))
       IN ld' = [l1 EXCEPT !.mut = {},
                           !.w[k].vote =
                               IF sp[v.utxo][2] <= getProposal(store, v.proposal).superblock
                               THEN VoteSpend(v, sp[v.utxo][2], sp[v.utxo][1]) ELSE v,
                           !.w[k].pc = "add"]
    /\ UNCHANGED <<chain, store, last, fx>>

\* { LOCK(mu); addVote(vote); }
P2AddLock(k) ==
    /\ ld.w[k].pc = "add"
    /\ ld.mu = {}
    /\ ld' = [ld EXCEPT !.mu = {k}, !.w[k].pc = "addHeld"]
    /\ UNCHANGED <<chain, store, last, fx>>

P2Add(k) ==
    /\ ld.w[k].pc = "addHeld"
    /\ store' = addVote(store, ld.w[k].vote)
    /\ ld' = [Inserted(ld, k, 1) EXCEPT !.mu = {}, !.w[k].pc = "head", !.w[k].i = @ + 1]
    /\ UNCHANGED <<chain, last, fx>>

\* join_all after pass 2: return !failed
LockJoinPass2 ==
    /\ ld.phase = "pass2"
    /\ \A k \in DOMAIN ld.w : ld.w[k].pc = "done"
    /\ ld' = [ld EXCEPT !.phase = "done", !.ret = ~ld.failed]
    /\ UNCHANGED <<chain, store, last, fx>>

\* A step of worker thread k
LockWorkerStep(k) ==
    /\ k \in DOMAIN ld.w
    /\ \/ WHead(k) \/ WFailLock(k) \/ WFailSet(k)
       \/ P1IndexLock(k) \/ P1IndexRead(k) \/ P1Disk(k) \/ P1DiskFail(k)
       \/ P1VinLock(k) \/ P1VinInsert(k) \/ P1Parse(k) \/ P1Lock(k) \/ P1ApplyLocked(k)
       \/ P1Leave(k) \/ P1Enter(k) \/ P1Insert(k)
       \/ P2TmpLock(k) \/ P2TmpRead(k) \/ P2HasLock(k) \/ P2Has(k)
       \/ P2SpLock(k) \/ P2SpCount(k) \/ P2GpLock(k) \/ P2Gp(k) \/ P2AddLock(k) \/ P2Add(k)

\* A step of the thread that called loadGovernanceData
LockMainStep == LockLoadStart \/ LockJoinPass1 \/ LockCheck \/ LockJoinPass2

NextLoadLocks ==
    \/ LockLoadStart
    \/ LockJoinPass1
    \/ LockCheck
    \/ LockJoinPass2
    \/ LockRequestShutdown
    \/ \E k \in DOMAIN ld.w : WHead(k)
    \/ \E k \in DOMAIN ld.w : WFailLock(k)
    \/ \E k \in DOMAIN ld.w : WFailSet(k)
    \/ \E k \in DOMAIN ld.w : P1IndexLock(k)
    \/ \E k \in DOMAIN ld.w : P1IndexRead(k)
    \/ \E k \in DOMAIN ld.w : P1Disk(k)
    \/ \E k \in DOMAIN ld.w : P1DiskFail(k)
    \/ \E k \in DOMAIN ld.w : P1VinLock(k)
    \/ \E k \in DOMAIN ld.w : P1VinInsert(k)
    \/ \E k \in DOMAIN ld.w : P1Parse(k)
    \/ \E k \in DOMAIN ld.w : P1Lock(k)
    \/ \E k \in DOMAIN ld.w : P1ApplyLocked(k)
    \/ \E k \in DOMAIN ld.w : P1Leave(k)
    \/ \E k \in DOMAIN ld.w : P1Enter(k)
    \/ \E k \in DOMAIN ld.w : P1Insert(k)
    \/ \E k \in DOMAIN ld.w : P2TmpLock(k)
    \/ \E k \in DOMAIN ld.w : P2TmpRead(k)
    \/ \E k \in DOMAIN ld.w : P2HasLock(k)
    \/ \E k \in DOMAIN ld.w : P2Has(k)
    \/ \E k \in DOMAIN ld.w : P2SpLock(k)
    \/ \E k \in DOMAIN ld.w : P2SpCount(k)
    \/ \E k \in DOMAIN ld.w : P2GpLock(k)
    \/ \E k \in DOMAIN ld.w : P2Gp(k)
    \/ \E k \in DOMAIN ld.w : P2AddLock(k)
    \/ \E k \in DOMAIN ld.w : P2Add(k)

SpecLoadLocks == InitLoadLocks /\ [][NextLoadLocks]_vars

\* Every thread that can take a step takes one in the end
SpecLoadLocksFair ==
    /\ SpecLoadLocks
    /\ WF_vars(LockMainStep)
    /\ \A k \in 0..(MaxLockCores - 1) : WF_vars(LockWorkerStep(k))

\* The positions of a worker inside a scope of LOCK(mut) that uses spentPrevouts
PrevoutsScope == {"vinsHeld", "spHeld", "gp", "gpHeld"}

\* C33: during the load spentPrevouts is used only by a worker that owns mut,
\* the mutex of the loader, which is not the mutex mu of the store (one worker
\* can own mut while another owns mu); a worker owns both only inside
\* getProposal, and makes at most one insertion while it does.
C33_PrevoutsUnderOwnMutex ==
    (ld.phase \in {"pass1", "check", "pass2", "done"}) =>
        /\ ~ld.unguarded
        /\ \A k \in DOMAIN ld.w :
              /\ ld.w[k].pc \in PrevoutsScope => ld.mut = {k}
              /\ (ld.mut = {k} /\ ld.mu = {k}) => ld.w[k].pc = "gpHeld"
              /\ ld.w[k].ins <= 1

\* One worker owns mut and mu inside getProposal, spentPrevouts holding the
\* utxo of its vote
C33_Witness ==
    \E k \in DOMAIN ld.w :
        /\ ld.w[k].pc = "gpHeld"
        /\ ld.mut = {k} /\ ld.mu = {k}
        /\ ld.w[k].vote.utxo \in DOMAIN ld.spentPrevouts

\* One worker owns mut while another owns mu
TwoMutexes ==
    \E j \in DOMAIN ld.w : \E k \in DOMAIN ld.w : j # k /\ ld.mut = {j} /\ ld.mu = {k}

\* The positions where a worker waits for mut
WaitsForMut == {"fail", "tmp", "sp"}

\* A worker that waits for mut, or is about to lock it for the inputs of the
\* next transaction, does not own mu: when both are owned mut was taken first
MutBeforeMu ==
    \A k \in DOMAIN ld.w :
        (ld.w[k].pc \in WaitsForMut \/ ld.w[k].pc = "vins") => ld.mu # {k}

\* The positions where a worker waits for mu
WaitsForMu == {"lock", "enter", "has", "gp", "add"}

\* No worker waits for a mutex it owns
NoRelock ==
    \A k \in DOMAIN ld.w :
        /\ ld.w[k].pc \in WaitsForMu => ld.mu # {k}
        /\ ld.w[k].pc \in WaitsForMut => ld.mut # {k}

MaxLiveHeight == 3

\* The blocks offered: a proposal; a vote by utxo 1; a second proposal and a
\* later vote by utxo 1; a vote by utxo 2 and the spend of utxo 1
LiveLockBlocks(h) ==
    {[time |-> 1, vtx |-> <<Tx(TxId(h, 1), {FeeIn(TxId(h, 1))}, <<PA>>)>>],
     [time |-> 1,
      vtx |-> <<Tx(TxId(h, 3), {FeeIn(TxId(h, 3))}, <<VoteOut(PA, YES, 1, TxId(h, 3))>>)>>],
     [time |-> 2,
      vtx |-> <<Tx(TxId(h, 1), {FeeIn(TxId(h, 1))}, <<PB>>),
                Tx(TxId(h, 3), {FeeIn(TxId(h, 3))}, <<VoteOut(PA, NO, 1, TxId(h, 3))>>)>>],
     [time |-> 1,
      vtx |-> <<Tx(TxId(h, 4), {FeeIn(TxId(h, 4))}, <<VoteOut(PA, YES, 2, TxId(h, 4))>>),
                Tx(TxId(h, 2), {1}, <<>>)>>]}

LiveIdle ==
    [op |-> "live", pc |-> "idle", height |-> 0, block |-> [time |-> 0, vtx |-> <<>>],
     ps |-> {}, vs |-> {}, pv |-> NullVote,
     spent |-> FALSE, svotes |-> {}, pre |-> EmptyStore, post |-> EmptyStore,
     mu |-> {}, cs |-> {}, seen |-> "none"]

InitLive ==
    /\ chain = <<>>
    /\ store = EmptyStore
    /\ last = [op |-> "init", height |-> 0, pre |-> EmptyStore, vs |-> {}, error |-> FALSE]
    /\ ld = LdIdle
    /\ fx = LiveIdle

\* The tip was connected: BlockConnected is signalled for it
LiveConnect ==
    /\ fx.pc = "idle"
    /\ Len(chain) < MaxLiveHeight
    /\ \E block \in LiveLockBlocks(Len(chain) + 1) :
        LET h == Len(chain) + 1
            ch == Append(chain, block)
        IN /\ DOMAIN BlockPrevouts(block) \cap SpentUpTo(chain, Len(chain)) = {}
           /\ chain' = ch
           /\ fx' = [fx EXCEPT !.pc = "parse", !.height = h, !.block = block, !.pre = store,
                               !.post = processBlock(store, block, h, TRUE, SpentUpTo(ch, h))]
    /\ UNCHANGED <<store, last, ld>>

\* processBlock: dataFromBlock, which reads the transactions of the vote
\* utxos and, for each vote, the store under mu
LiveParse ==
    /\ fx.pc = "parse"
    /\ LET h == fx.height
           d == dataFromBlock(store, fx.block, TRUE, h, TRUE)
       IN /\ (BlockVotes(h) # {}) => fx.mu = {}
          /\ fx' = [fx EXCEPT !.pc = "lock", !.ps = d.ps, !.vs = d.vs]
    /\ UNCHANGED <<chain, store, last, ld>>

\* processBlock: LOCK(mu)
LiveLock ==
    /\ fx.pc = "lock"
    /\ fx.mu = {}
    /\ fx' = [fx EXCEPT !.mu = {"validation"}, !.pc = "apply"]
    /\ UNCHANGED <<chain, store, last, ld>>

\* The loop of processBlock over the extracted votes with processingChainTip
\* true, up to the point where mu is released (LEAVE_CRITICAL_SECTION) for a
\* vote that is not stored yet
RECURSIVE liveVoteLoop(_, _)
liveVoteLoop(st, vs) ==
    IF vs = {} THEN [st |-> st, vs |-> {}, pv |-> NullVote, wait |-> FALSE]
    ELSE LET v == CHOOSE x \in vs : TRUE IN
         IF v.proposal \notin DOMAIN st.proposals THEN liveVoteLoop(st, vs \ {v})
         ELSE IF VoteHash(v) \in DOMAIN st.votes
         THEN liveVoteLoop(processVote(st, v, TRUE, {}), vs \ {v})
         ELSE [st |-> st, vs |-> vs \ {v}, pv |-> v, wait |-> TRUE]

\* The validation thread after a run of the vote loop that keeps mu for the
\* spent check
LiveAfterVoteLoopHeld(f, r) ==
    IF r.wait THEN [f EXCEPT !.pc = "spent", !.ps = {}, !.vs = r.vs, !.pv = r.pv]
    ELSE [f EXCEPT !.mu = {}, !.ps = {}, !.vs = {}, !.pv = NullVote,
                   !.pc = IF DOMAIN r.st.votes = {} THEN "idle" ELSE "since"]

\* The validation thread after a run of the vote loop: mu is released, for
\* the spent check of a new vote (LEAVE_CRITICAL_SECTION) or at the end of the
\* scope, where processBlock returns if votes is empty
LiveAfterVoteLoop(f, r) ==
    IF r.wait THEN [f EXCEPT !.mu = {}, !.pc = "spent", !.ps = {}, !.vs = r.vs, !.pv = r.pv]
    ELSE [f EXCEPT !.mu = {}, !.ps = {}, !.vs = {}, !.pv = NullVote,
                   !.pc = IF DOMAIN r.st.votes = {} THEN "idle" ELSE "since"]

\* processBlock under mu: the proposals, then the votes up to the first vote
\* that is not stored yet
LiveApply ==
    /\ fx.pc = "apply"
    /\ LET r == liveVoteLoop(addProposals(store, fx.ps), fx.vs) IN
        /\ store' = r.st
        /\ fx' = LiveAfterVoteLoop(fx, r)
    /\ UNCHANGED <<chain, last, ld>>

\* IsVoteSpent: LOCK(cs_main)
LiveSpentLock ==
    /\ fx.pc = "spent"
    /\ fx.cs = {}
    /\ fx' = [fx EXCEPT !.cs = {"validation"}, !.pc = "spentHeld"]
    /\ UNCHANGED <<chain, store, last, ld>>

\* IsVoteSpent: !pcoinsTip->GetCoin(vote.getUtxo(), coin)
LiveSpentRead ==
    /\ fx.pc = "spentHeld"
    /\ fx' = [fx EXCEPT !.cs = {}, !.pc = "enter",
                        !.spent = IsVoteSpent(fx.pv, SpentUpTo(chain, Len(chain)))]
    /\ UNCHANGED <<chain, store, last, ld>>

\* ENTER_CRITICAL_SECTION(mu)
LiveEnter ==
    /\ fx.pc = "enter"
    /\ fx.mu = {}
    /\ fx' = [fx EXCEPT !.mu = {"validation"}, !.pc = "insert"]
    /\ UNCHANGED <<chain, store, last, ld>>

\* if (spent) continue; addVote(vote); and the rest of the vote loop
LiveInsert ==
    /\ fx.pc = "insert"
    /\ LET st1 == IF fx.spent THEN store ELSE addVote(store, fx.pv)
           r == liveVoteLoop(st1, fx.vs)
       IN /\ store' = r.st
          /\ fx' = LiveAfterVoteLoop([fx EXCEPT !.spent = FALSE], r)
    /\ UNCHANGED <<chain, last, ld>>

\* getProposalsSince and getMutableSBVotes, each under its own LOCK(mu)
LiveSince ==
    /\ fx.pc = "since"
    /\ fx.mu = {}
    /\ fx' = [fx EXCEPT !.pc = "mark", !.svotes = SinceVotes(store, fx.height)]
    /\ UNCHANGED <<chain, store, last, ld>>

\* { LOCK(mu); for (v : svotes) spendVote(...) }
LiveMarkLock ==
    /\ fx.pc = "mark"
    /\ fx.mu = {}
    /\ fx' = [fx EXCEPT !.mu = {"validation"}, !.pc = "markHeld"]
    /\ UNCHANGED <<chain, store, last, ld>>

LiveMark ==
    /\ fx.pc = "markHeld"
    /\ store' = spendVotes(store, fx.svotes, fx.height, BlockPrevouts(fx.block))
    /\ fx' = [fx EXCEPT !.mu = {}, !.pc = "idle", !.svotes = {}]
    /\ UNCHANGED <<chain, last, ld>>

\* The tip was disconnected: BlockDisconnected is signalled for it
LiveDisconnect ==
    /\ fx.op = "live"
    /\ fx.pc = "idle"
    /\ Len(chain) > 0
    /\ LET h == Len(chain) IN
        /\ chain' = SubSeq(chain, 1, h - 1)
        /\ fx' = [fx EXCEPT !.pc = "dparse", !.height = h, !.block = chain[h], !.pre = store,
                            !.post = BlockDisconnected(store, chain[h], h)]
    /\ UNCHANGED <<store, last, ld>>

\* BlockDisconnected: dataFromBlock without the block index
LiveDisParse ==
    /\ fx.pc = "dparse"
    /\ LET d == dataFromBlock(store, fx.block, FALSE, 0, TRUE) IN
        /\ (d.vs # {}) => fx.mu = {}
        /\ fx' = [fx EXCEPT !.pc = "index", !.ps = d.ps, !.vs = d.vs]
    /\ UNCHANGED <<chain, store, last, ld>>

\* { LOCK(cs_main); pindex = LookupBlockIndex(...) }
LiveIndexLock ==
    /\ fx.pc = "index"
    /\ fx.cs = {}
    /\ fx' = [fx EXCEPT !.cs = {"validation"}, !.pc = "indexHeld"]
    /\ UNCHANGED <<chain, store, last, ld>>

LiveIndexRead ==
    /\ fx.pc = "indexHeld"
    /\ fx' = [fx EXCEPT !.cs = {}, !.pc = "remove"]
    /\ UNCHANGED <<chain, store, last, ld>>

\* { LOCK(mu); removeVote, removeProposal }
LiveRemoveLock ==
    /\ fx.pc = "remove"
    /\ fx.mu = {}
    /\ fx' = [fx EXCEPT !.mu = {"validation"}, !.pc = "removeHeld"]
    /\ UNCHANGED <<chain, store, last, ld>>

LiveRemove ==
    /\ fx.pc = "removeHeld"
    /\ store' = removeProposalsAt(removeVotesAt(store, fx.vs, fx.height), fx.ps, fx.height)
    /\ fx' = [fx EXCEPT !.mu = {}, !.pc = "dsince", !.ps = {}, !.vs = {}]
    /\ UNCHANGED <<chain, last, ld>>

\* getProposalsSince and getMutableSBVotes, each under its own LOCK(mu)
LiveDisSince ==
    /\ fx.pc = "dsince"
    /\ fx.mu = {}
    /\ fx' = [fx EXCEPT !.pc = "unmark", !.svotes = SinceVotes(store, fx.height)]
    /\ UNCHANGED <<chain, store, last, ld>>

\* { LOCK(mu); for (v : svotes) unspendVote(...) }
LiveUnmarkLock ==
    /\ fx.pc = "unmark"
    /\ fx.mu = {}
    /\ fx' = [fx EXCEPT !.mu = {"validation"}, !.pc = "unmarkHeld"]
    /\ UNCHANGED <<chain, store, last, ld>>

LiveUnmark ==
    /\ fx.pc = "unmarkHeld"
    /\ store' = unspendVotes(store, fx.svotes, fx.height, BlockPrevouts(fx.block))
    /\ fx' = [fx EXCEPT !.mu = {}, !.pc = "idle", !.svotes = {}]
    /\ UNCHANGED <<chain, last, ld>>

\* A reader (an RPC, the validation of a block): LOCK(mu)
ReaderLock ==
    /\ fx.op = "live"
    /\ fx.mu = {}
    /\ fx' = [fx EXCEPT !.mu = {"reader"}]
    /\ UNCHANGED <<chain, store, last, ld>>

\* The reader copies what it finds and leaves: it saw the whole of the block
\* that is being connected or none of it, or a part
ReaderRead ==
    /\ fx.op = "live"
    /\ fx.mu = {"reader"}
    /\ fx' = [fx EXCEPT !.mu = {},
                        !.seen = IF fx.pc = "idle" \/ store \in {fx.pre, fx.post}
                                 THEN "whole" ELSE "part"]
    /\ UNCHANGED <<chain, store, last, ld>>

NextLive ==
    \/ LiveConnect \/ LiveParse \/ LiveLock \/ LiveApply
    \/ LiveSpentLock \/ LiveSpentRead \/ LiveEnter \/ LiveInsert
    \/ LiveSince \/ LiveMarkLock \/ LiveMark
    \/ LiveDisconnect \/ LiveDisParse \/ LiveIndexLock \/ LiveIndexRead
    \/ LiveRemoveLock \/ LiveRemove \/ LiveDisSince \/ LiveUnmarkLock \/ LiveUnmark
    \/ ReaderLock \/ ReaderRead

SpecLive == InitLive /\ [][NextLive]_vars

\* The steps of the validation thread end in the store that processBlock
\* gives in one piece
LiveStepsAgree == (fx.op = "live" /\ fx.pc = "idle") => store = fx.post

\* The positions of the validation thread at which it reads transactions or
\* blocks (dataFromBlock) and at which it takes or holds cs_main (IsVoteSpent,
\* LookupBlockIndex)
LiveIoSteps == {"parse", "dparse"}
LiveCsSteps == {"spent", "spentHeld", "index", "indexHeld"}

\* C34: the validation thread never reads from disk and never takes or holds
\* cs_main while it owns mu: the block is parsed before mu is taken, mu is
\* released before the utxo set is consulted and owned again when the vote is
\* inserted
C34_NoIoUnderStoreMutex ==
    fx.op = "live" =>
        /\ (fx.pc \in LiveIoSteps \cup LiveCsSteps) => "validation" \notin fx.mu
        /\ (fx.cs # {}) => "validation" \notin fx.mu
        /\ (fx.pc \in {"apply", "insert", "markHeld", "removeHeld", "unmarkHeld"})
              => fx.mu = {"validation"}

\* The utxo set is consulted under cs_main for a new vote, in the middle of a
\* block of which the proposal is already stored, while the reader owns mu
C34_Witness ==
    /\ fx.op = "live"
    /\ fx.pc = "spentHeld"
    /\ fx.cs = {"validation"}
    /\ fx.mu = {"reader"}
    /\ store # fx.pre

\* C39: a reader that takes mu sees the whole of the block that is being
\* connected or disconnected, or none of it
C39_ReaderSeesWholeBlocks == (fx.op = "live") => fx.seen # "part"

\* A reader has seen the whole of a block or none of it while the block was in
\* progress
WholeSeenInProgress == fx.op = "live" /\ fx.seen = "whole" /\ fx.pc # "idle"

====
